---- MODULE Spec2Model ----
(***************************************************************************)
(* Model of the gtasks MCP server's read path: the registered list/search  *)
(* tools (server.ts), TaskService.list / search, fetchTasks (registry      *)
(* drain, concurrent per-collection drains joined by Promise.allSettled),  *)
(* parseCursor and paginateTasks, against a Google Tasks backend that      *)
(* pages natively and may fail; next to it the write operations of         *)
(* TaskService up to the request they send, and TaskResourceHandler.read.  *)
(*                                                                         *)
(* JavaScript strings are sequences of one-character strings, so that      *)
(* Number.parseInt, String(n), toLowerCase and includes are computed.      *)
(***************************************************************************)
EXTENDS Integers, Sequences, FiniteSets, TLC

(***************************************************************************)
(* Program constants and model bounds                                      *)
(***************************************************************************)
TASK_PAGE_SIZE == 20

MAX_TASK_RESULTS == 100

\* Size of the two large collections of the backend (A and B).
BigList == 20

\* Size of the small collection of the backend (C).
SmallList == 5

\* Largest number of items the backend puts in one native page, whatever
\* maxResults asks for.
BackendPageCap == 15

\* Largest number of records the backend puts in one native registry page.
RegistryPageCap == 3

\* Largest number of calls a caller makes while following next cursors.
MaxCalls == 4

\* Largest merged-set size drawn for the pager on its own.
MaxItems == 45

\* A smaller native page size of the backend, for drains of many pages.
SmallPageCap == 4

\* A smaller native registry page size of the backend.
SmallRegistryCap == 1

\* How many times a caller sends the same request to compare the answers.
MaxRuns == 2

\* Page requests after which a drain that has not ended is no longer
\* followed (the code has no such limit; the bound keeps the model finite).
MaxRequests == 6

(***************************************************************************)
(* JavaScript values                                                       *)
(***************************************************************************)
\* An optional string: absent (undefined or null) or a present character
\* sequence.
Undefined == [present |-> FALSE, s |-> <<>>]

Null == Undefined

Str(chars) == [present |-> TRUE, s |-> chars]

\* JavaScript truthiness of an optional string: present and non-empty.
Truthy(x) == x.present /\ Len(x.s) > 0

\* An optional boolean: left out (undefined), or set to true or false.
Unset == [set |-> FALSE, v |-> FALSE]

Flag(v) == [set |-> TRUE, v |-> v]

Min(a, b) == IF a < b THEN a ELSE b

DigitChars == <<"0", "1", "2", "3", "4", "5", "6", "7", "8", "9">>

IsDigit(c) == \E i \in 1..10 : DigitChars[i] = c

DigitVal(c) == (CHOOSE i \in 1..10 : DigitChars[i] = c) - 1

IsSpace(c) == c = " "

\* String(n) for an integer n >= 0: its decimal digits.
RECURSIVE DecimalDigits(_)
DecimalDigits(n) ==
    IF n < 10 THEN <<DigitChars[n + 1]>>
    ELSE DecimalDigits(n \div 10) \o <<DigitChars[(n % 10) + 1]>>

JsString(n) == Str(DecimalDigits(n))

\* Index of the first character of s at or after i that is not white
\* space (Len(s) + 1 when there is none).
RECURSIVE SkipSpaces(_, _)
SkipSpaces(s, i) ==
    IF i <= Len(s) /\ IsSpace(s[i]) THEN SkipSpaces(s, i + 1) ELSE i

\* Value of the maximal run of digits of s starting at i, with acc the
\* value read so far.
RECURSIVE ReadDigits(_, _, _)
ReadDigits(s, i, acc) ==
    IF i <= Len(s) /\ IsDigit(s[i])
    THEN ReadDigits(s, i + 1, acc * 10 + DigitVal(s[i]))
    ELSE acc

\* Number.parseInt(s, 10): skips leading white space, reads an optional
\* sign, then the longest run of digits, and ignores whatever follows;
\* NaN when there is no digit at that place.
ParseInt(s) ==
    LET i == SkipSpaces(s, 1)
        signed == i <= Len(s) /\ s[i] \in {"-", "+"}
        j == IF signed THEN i + 1 ELSE i
    IN  IF j <= Len(s) /\ IsDigit(s[j])
        THEN [nan |-> FALSE,
              v |-> IF signed /\ s[i] = "-"
                    THEN 0 - ReadDigits(s, j, 0)
                    ELSE ReadDigits(s, j, 0)]
        ELSE [nan |-> TRUE, v |-> 0]

\* Array.prototype.slice(from, to) for 0 <= from <= to.
Slice(items, from, to) ==
    SubSeq(items, from + 1, Min(to, Len(items)))

InvalidCursorMsg == "Invalid cursor. Use the cursor returned by the previous call."

\* parseCursor gone wrong: the cursor is never read.
parseCursor_IgnoresCursor(cursor) == [ok |-> TRUE, offset |-> 0]

\* Number.isInteger on a result of parseInt: false for NaN alone.
NumberIsInteger(x) == ~x.nan

\* parseCursor: an outcome [ok, offset].
parseCursor(cursor) ==
    IF ~Truthy(cursor) THEN [ok |-> TRUE, offset |-> 0]
    ELSE LET offset == ParseInt(cursor.s)
         IN  IF ~NumberIsInteger(offset) \/ offset.v < 0
             THEN [ok |-> FALSE, offset |-> 0]
             ELSE [ok |-> TRUE, offset |-> offset.v]

\* paginateTasks gone wrong: `offset > tasks.length` in the bounds check.
paginateTasks_LooseBound(tasks, cursor) ==
    LET parsed == parseCursor(cursor)
        offset == parsed.offset
    IN  IF ~parsed.ok THEN [ok |-> FALSE, error |-> InvalidCursorMsg]
        ELSE IF Len(tasks) > 0 /\ offset > Len(tasks)
        THEN [ok |-> FALSE, error |-> InvalidCursorMsg]
        ELSE LET page == Slice(tasks, offset, offset + TASK_PAGE_SIZE)
                 nextOffset == offset + Len(page)
             IN  [ok |-> TRUE,
                  page |-> page,
                  nextCursor |-> IF nextOffset < Len(tasks)
                                 THEN JsString(nextOffset) ELSE Null,
                  offset |-> offset,
                  total |-> Len(tasks)]

\* paginateTasks gone wrong: the bounds check without `tasks.length > 0`.
paginateTasks_NoEmptyGuard(tasks, cursor) ==
    LET parsed == parseCursor(cursor)
        offset == parsed.offset
    IN  IF ~parsed.ok THEN [ok |-> FALSE, error |-> InvalidCursorMsg]
        ELSE IF offset >= Len(tasks)
        THEN [ok |-> FALSE, error |-> InvalidCursorMsg]
        ELSE LET page == Slice(tasks, offset, offset + TASK_PAGE_SIZE)
                 nextOffset == offset + Len(page)
             IN  [ok |-> TRUE,
                  page |-> page,
                  nextCursor |-> IF nextOffset < Len(tasks)
                                 THEN JsString(nextOffset) ELSE Null,
                  offset |-> offset,
                  total |-> Len(tasks)]

\* paginateTasks gone wrong: `nextOffset <= tasks.length` for the next cursor.
paginateTasks_OffByOne(tasks, cursor) ==
    LET parsed == parseCursor(cursor)
        offset == parsed.offset
    IN  IF ~parsed.ok THEN [ok |-> FALSE, error |-> InvalidCursorMsg]
        ELSE IF Len(tasks) > 0 /\ offset >= Len(tasks)
        THEN [ok |-> FALSE, error |-> InvalidCursorMsg]
        ELSE LET page == Slice(tasks, offset, offset + TASK_PAGE_SIZE)
                 nextOffset == offset + Len(page)
             IN  [ok |-> TRUE,
                  page |-> page,
                  nextCursor |-> IF nextOffset <= Len(tasks)
                                 THEN JsString(nextOffset) ELSE Null,
                  offset |-> offset,
                  total |-> Len(tasks)]

\* paginateTasks gone wrong: no bounds check, an offset past the end gives
\* an empty page.
paginateTasks_NoBoundsCheck(tasks, cursor) ==
    LET parsed == parseCursor(cursor)
        offset == parsed.offset
    IN  IF ~parsed.ok THEN [ok |-> FALSE, error |-> InvalidCursorMsg]
        ELSE LET page == Slice(tasks, offset, offset + TASK_PAGE_SIZE)
                 nextOffset == offset + Len(page)
             IN  [ok |-> TRUE,
                  page |-> page,
                  nextCursor |-> IF nextOffset < Len(tasks)
                                 THEN JsString(nextOffset) ELSE Null,
                  offset |-> offset,
                  total |-> Len(tasks)]

\* paginateTasks: an outcome [ok, error] or [ok, page, nextCursor, offset, total].
paginateTasks(tasks, cursor) ==
    LET parsed == parseCursor(cursor)
        offset == parsed.offset
    IN  IF ~parsed.ok THEN [ok |-> FALSE, error |-> InvalidCursorMsg]
        ELSE IF Len(tasks) > 0 /\ offset >= Len(tasks)
        THEN [ok |-> FALSE, error |-> InvalidCursorMsg]
        ELSE LET page == Slice(tasks, offset, offset + TASK_PAGE_SIZE)
                 nextOffset == offset + Len(page)
             IN  [ok |-> TRUE,
                  page |-> page,
                  nextCursor |-> IF nextOffset < Len(tasks)
                                 THEN JsString(nextOffset) ELSE Null,
                  offset |-> offset,
                  total |-> Len(tasks)]


(***************************************************************************)
(* The backend (Google Tasks API behind this.client)                       *)
(***************************************************************************)
\* The records the registry can list, in backend order. "" is a record
\* that carries no id.
MasterRegistry == <<"A", "", "B", "D", "C">>

TaskCount(tl) ==
    CASE tl = "A" -> BigList
      [] tl = "B" -> BigList
      [] tl = "C" -> SmallList
      [] OTHER -> 0

ListBase(tl) ==
    CASE tl = "A" -> 100
      [] tl = "B" -> 200
      [] tl = "C" -> 300
      [] OTHER -> 400

\* The tasks of collection tl in backend order; a task is written as its id.
TasksOf(tl) == [k \in 1..TaskCount(tl) |-> ListBase(tl) + k]

\* title and notes of a task, by its position in its collection.
TaskTitle(t) ==
    CASE t % 5 = 1 -> Str(<<"B", "u", "y", " ", "M", "i", "l", "k">>)
      [] t % 5 = 3 -> Str(<<"E", "g", "g", "s">>)
      [] t % 5 = 0 -> Str(<<"E", "g", "g", "s">>)
      [] OTHER -> Undefined

TaskNotes(t) ==
    CASE t % 5 = 2 -> Str(<<"m", "i", "l", "k", " ", "r", "u", "n">>)
      [] t % 5 = 3 -> Str(<<"M", "I", "L", "K">>)
      [] t % 5 = 0 -> Str(<<>>)
      [] OTHER -> Undefined

NoToken == 0

\* Whether the backend holds task t as completed.
TaskCompleted(t) == t % 5 = 0

\* The tasks of collection tl a tasks.list with these parameters pages
\* through: completed tasks are left out when showCompleted is sent as
\* false. (No task of the backend is hidden, deleted or assigned, and the
\* date parameters select every task.)
VisibleTasks(tl, params) ==
    SelectSeq(TasksOf(tl),
              LAMBDA t : (params.showCompleted.set /\ ~params.showCompleted.v)
                             => ~TaskCompleted(t))

\* Number of native pages a sequence of n items is served in.
NativePages(n, cap) == IF n = 0 THEN 1 ELSE (n + cap - 1) \div cap

\* One native page of `all`: the page that starts after `token` items.
\* The API leaves `items` out of an empty page (hasItems = FALSE) and
\* leaves nextPageToken out of the last page (NoToken).
NativePage(all, token, size) ==
    LET items == Slice(all, token, token + size)
        next == token + Len(items)
    IN  [ok |-> TRUE,
         hasItems |-> Len(items) > 0,
         items |-> items,
         nextPageToken |-> IF next < Len(all) THEN next ELSE NoToken]

Failure == [ok |-> FALSE, hasItems |-> FALSE, items |-> <<>>, nextPageToken |-> NoToken]

\* Which native page a request with this token asks for (1-based).
PageNumber(token, size) == (token \div size) + 1

InRegistry(b, tl) == \E i \in 1..Len(b.registry) : b.registry[i] = tl

\* The alias the API takes for the user's default task list.
DefaultAlias == "@default"

\* The collection a tasklist parameter addresses: the alias stands for the
\* first collection of the registry that has an id.
AddressedList(b, tasklist) ==
    LET ids == SelectSeq(b.registry, LAMBDA id : id # "")
    IN  IF tasklist = DefaultAlias /\ Len(ids) > 0 THEN ids[1] ELSE tasklist

\* client.tasklists.list({maxResults, pageToken}) on backend b.
TasklistsList(b, maxResults, pageToken) ==
    LET size == Min(maxResults, b.regCap)
    IN  IF b.regFailAt = PageNumber(pageToken, size) THEN Failure
        ELSE NativePage(b.registry, pageToken, size)

\* The tasks backend b holds in collection tl at present: those of
\* TasksOf, or none when the collection has been emptied.
HeldTasks(b, tl) == IF tl \in b.emptied THEN <<>> ELSE TasksOf(tl)

\* client.tasks.get({tasklist, task}) on backend b: the task if the
\* collection holds it, a rejection (404) otherwise.
TasksGet(b, tasklist, task) ==
    LET tl == AddressedList(b, tasklist)
    IN  IF /\ InRegistry(b, tl)
           /\ tl # ""
           /\ b.failAt[tl] = 0
           /\ \E k \in DOMAIN HeldTasks(b, tl) : HeldTasks(b, tl)[k] = task
        THEN [ok |-> TRUE, data |-> task]
        ELSE [ok |-> FALSE, data |-> 0]

\* client.tasks.list({tasklist, ...listParams, pageToken}) on backend b.
\* A collection in b.endless answers every request with a next page token.
TasksList(b, tasklist, listParams, pageToken) ==
    LET size == Min(listParams.maxResults, b.cap)
        tl == AddressedList(b, tasklist)
        held == IF tl \in b.emptied THEN <<>> ELSE VisibleTasks(tl, listParams)
        page == NativePage(held, pageToken, size)
    IN  IF ~InRegistry(b, tl) \/ tl = "" THEN Failure
        ELSE IF b.failAt[tl] = PageNumber(pageToken, size) THEN Failure
        ELSE IF tl \in b.endless
        THEN [page EXCEPT !.nextPageToken = pageToken + size]
        ELSE page

BackendErrorMsg == "backend request failed"

(***************************************************************************)
(* helpers.ts: filters and buildListParams                                 *)
(***************************************************************************)
\* TaskListFilterArgs with every filter left out (taskListId is carried
\* next to the filters).
NoFilters ==
    [showCompleted |-> Unset, showHidden |-> Unset, showDeleted |-> Unset,
     showAssigned |-> Unset,
     completedMin |-> Undefined, completedMax |-> Undefined,
     dueMin |-> Undefined, dueMax |-> Undefined, updatedMin |-> Undefined]

\* `if (filters.x !== undefined) params.x = filters.x`
IfDefined(x) == IF x.set THEN Flag(x.v) ELSE Unset

\* `if (filters.x) params.x = filters.x`
IfTruthy(x) == IF Truthy(x) THEN x ELSE Undefined

\* The filter pass-through gone wrong: flags tested for truthiness, so an
\* explicit false is not sent.
buildListParams_TruthyFlags(filters) ==
    LET IfTrue(x) == IF x.set /\ x.v THEN Flag(TRUE) ELSE Unset
    IN  [maxResults |-> MAX_TASK_RESULTS,
         showCompleted |-> IfTrue(filters.showCompleted),
         showHidden |-> IfTrue(filters.showHidden),
         showDeleted |-> IfTrue(filters.showDeleted),
         showAssigned |-> IfTrue(filters.showAssigned),
         completedMin |-> IfTruthy(filters.completedMin),
         completedMax |-> IfTruthy(filters.completedMax),
         dueMin |-> IfTruthy(filters.dueMin),
         dueMax |-> IfTruthy(filters.dueMax),
         updatedMin |-> IfTruthy(filters.updatedMin)]

\* buildListParams: a parameter that is Unset / Undefined is not in params.
buildListParams(filters) ==
    [maxResults |-> MAX_TASK_RESULTS,
     showCompleted |-> IfDefined(filters.showCompleted),
     showHidden |-> IfDefined(filters.showHidden),
     showDeleted |-> IfDefined(filters.showDeleted),
     showAssigned |-> IfDefined(filters.showAssigned),
     completedMin |-> IfTruthy(filters.completedMin),
     completedMax |-> IfTruthy(filters.completedMax),
     dueMin |-> IfTruthy(filters.dueMin),
     dueMax |-> IfTruthy(filters.dueMax),
     updatedMin |-> IfTruthy(filters.updatedMin)]

(***************************************************************************)
(* TaskService: search predicate and response construction                 *)
(***************************************************************************)
LowerOf(c) ==
    CASE c = "B" -> "b" [] c = "E" -> "e" [] c = "G" -> "g" [] c = "I" -> "i"
      [] c = "K" -> "k" [] c = "L" -> "l" [] c = "M" -> "m"
      [] OTHER -> c

\* String.prototype.toLowerCase
ToLowerCase(s) == [i \in 1..Len(s) |-> LowerOf(s[i])]

\* String.prototype.includes
Includes(s, q) ==
    \E i \in 1..(Len(s) - Len(q) + 1) : SubSeq(s, i, i + Len(q) - 1) = q

\* The predicate gone wrong: the comparison is case-sensitive.
FieldMatches_CaseSensitive(field, query) ==
    field.present /\ Includes(field.s, query)

\* field?.toLowerCase().includes(query.toLowerCase()) as a condition
FieldMatches(field, query) ==
    field.present /\ Includes(ToLowerCase(field.s), ToLowerCase(query))

TaskMatches(t, query) ==
    FieldMatches(TaskTitle(t), query) \/ FieldMatches(TaskNotes(t), query)

\* allTasks.filter(match)
FilterTasks(tasks, query) == SelectSeq(tasks, LAMBDA t : TaskMatches(t, query))

NoResponse == [status |-> "none"]

ErrorResponse(msg) == [status |-> "error", error |-> msg]

\* The response gone wrong: the placeholder line is written whenever no
\* page follows.
PagedResponse_PlaceholderOnLastPage(c, items) ==
    LET r == paginateTasks(items, c.cursor)
        matching == IF c.op = "search" THEN Str(c.query) ELSE Undefined
    IN  IF ~r.ok THEN ErrorResponse(r.error)
        ELSE [status |-> "ok",
              header |-> IF r.total = 0
                         THEN [zero |-> TRUE, total |-> 0, from |-> 0, to |-> 0,
                               matching |-> matching]
                         ELSE [zero |-> FALSE, total |-> r.total,
                               from |-> r.offset + 1,
                               to |-> r.offset + Len(r.page),
                               matching |-> matching],
              body |-> r.page,
              placeholder |-> ~Truthy(r.nextCursor),
              cursorLine |-> IF Truthy(r.nextCursor) THEN r.nextCursor ELSE Undefined,
              pagination |-> [pageSize |-> TASK_PAGE_SIZE,
                              total |-> r.total,
                              offset |-> r.offset,
                              returned |-> Len(r.page),
                              nextCursor |-> r.nextCursor]]

\* The body of list and search after the items are at hand: paginate,
\* build header ("Found 0 tasks." or "Found {total} tasks. Showing
\* {from}-{to} of {total}.", with `matching "{query}"` for search), body
\* (the formatted page, or "No tasks on this page."), cursor line and
\* pagination metadata.
PagedResponse(c, items) ==
    LET r == paginateTasks(items, c.cursor)
        matching == IF c.op = "search" THEN Str(c.query) ELSE Undefined
    IN  IF ~r.ok THEN ErrorResponse(r.error)
        ELSE [status |-> "ok",
              header |-> IF r.total = 0
                         THEN [zero |-> TRUE, total |-> 0, from |-> 0, to |-> 0,
                               matching |-> matching]
                         ELSE [zero |-> FALSE, total |-> r.total,
                               from |-> r.offset + 1,
                               to |-> r.offset + Len(r.page),
                               matching |-> matching],
              body |-> r.page,
              placeholder |-> ~(Len(r.page) > 0),
              cursorLine |-> IF Truthy(r.nextCursor) THEN r.nextCursor ELSE Undefined,
              pagination |-> [pageSize |-> TASK_PAGE_SIZE,
                              total |-> r.total,
                              offset |-> r.offset,
                              returned |-> Len(r.page),
                              nextCursor |-> r.nextCursor]]

\* The sequence list / search hand to paginateTasks.
ItemsToPaginate(call, tasks) ==
    IF call.op = "search" THEN FilterTasks(tasks, call.query) ELSE tasks

(***************************************************************************)
(* server.ts: the registered tools                                         *)
(***************************************************************************)
\* registerTool("list"): async ({ cursor, ...filters }) => taskService.list(filters)
ListTool(input) ==
    [op |-> "list", query |-> <<>>, taskListId |-> input.taskListId,
     filters |-> input.filters, cursor |-> Undefined]

\* registerTool("search"): async ({ query, ...filters }) => taskService.search(query, filters)
SearchTool(input) ==
    [op |-> "search", query |-> input.query, taskListId |-> input.taskListId,
     filters |-> input.filters, cursor |-> Undefined]

\* A direct call of TaskService.list / TaskService.search.
ServiceCall(input) ==
    [op |-> input.op, query |-> input.query, taskListId |-> input.taskListId,
     filters |-> input.filters, cursor |-> input.cursor]

Dispatch(input) ==
    IF input.via = "tool"
    THEN IF input.op = "search" THEN SearchTool(input) ELSE ListTool(input)
    ELSE ServiceCall(input)


\* No write operation has been called.
NoWrite == [method |-> "none", status |-> "none"]

\* TaskResourceHandler.read has not been called.
NoRead ==
    [pc |-> "idle", taskId |-> 0, taskLists |-> <<>>, results |-> <<>>,
     outcome |-> NoResponse]

\* TaskListService.list has not been called.
NoListing == [pc |-> "idle", outcome |-> NoResponse]

\* Nobody records the order in which fetches settle.
NotObserving == [on |-> FALSE, ids |-> <<>>]

(***************************************************************************)
(* State                                                                   *)
(***************************************************************************)
VARIABLES
    backend,    \* what the Google Tasks API holds and which requests it fails
    pc,         \* where the request in progress stands: "idle", "registry",
                \* "fanout" (awaiting Promise.allSettled), "single",
                \* "fetched" (fetchTasks resolved, list / search resumes)
    input,      \* the caller's arguments of the current or last request
    call,       \* the arguments TaskService.list / search was called with
    pageToken,  \* fetchAllTaskLists: its pageToken
    taskLists,  \* fetchAllTaskLists: its taskLists
    fetch,      \* one fetchAllTasksFromTaskList invocation per element
    allTasks,   \* list / search: allTasks, once fetchTasks returned
    paginated,  \* the sequence handed to paginateTasks
    response,   \* what the last request returned or threw
    session,    \* the caller's record of the pages it has followed
    regReqs,    \* the tasklists.list requests the current request has sent
    kept,       \* the response a caller keeps to compare a repeat against
    sent,       \* the request the last write operation sent, and its answer
    read,       \* TaskResourceHandler.read in progress, and its outcome
    listing,    \* TaskListService.list in progress, and its outcome
    other,      \* the locals of a second list / search request, suspended
    settleLog   \* an observer's record of the order in which fetches settle

vars == <<backend, pc, input, call, pageToken, taskLists, fetch, allTasks,
          paginated, response, session, regReqs, kept, sent, read, listing,
          other, settleLog>>

\* The variables of the write operations and of the resource handler,
\* which the list / search path leaves alone.
others == <<sent, read, listing, other>>

\* The variables of list / search, which the other handlers leave alone.
listVars == <<pc, input, call, pageToken, taskLists, fetch, allTasks, paginated,
              response, session, regReqs, kept, other, settleLog>>

TaskListIds == {"A", "B", "C", "D"}

Prefixes(s) == {SubSeq(s, 1, n) : n \in 0..Len(s)}

\* The backends: a registry, and for the registry and each of its
\* collections the native page whose request fails (0: none fails); the
\* native page sizes; the collections that have been emptied and those
\* whose paging never ends (none of either here).
Backends ==
    {b \in [registry : Prefixes(MasterRegistry),
            cap : {BackendPageCap},
            regCap : {RegistryPageCap},
            emptied : {{}},
            endless : {{}},
            regFailAt : 0..NativePages(Len(MasterRegistry), RegistryPageCap),
            failAt : [TaskListIds -> 0..NativePages(BigList, BackendPageCap)]] :
        /\ b.regFailAt <= NativePages(Len(b.registry), RegistryPageCap)
        /\ \A tl \in TaskListIds :
              /\ b.failAt[tl] <= NativePages(TaskCount(tl), BackendPageCap)
              /\ ~InRegistry(b, tl) => b.failAt[tl] = 0}

(***************************************************************************)
(* The caller                                                              *)
(***************************************************************************)
Queries == {<<"m", "i", "L", "K">>, <<"t", "e", "a">>}

\* taskListId is "" when the caller leaves it out.
Targets == {"", "A", "C"}

\* Cursors a caller may try besides the ones it was handed.
ProbeCursors == {Str(<<"5">>), Str(<<"1", "2", "a", "b", "c">>)}

QueryInputs ==
    {[op |-> "list", query |-> <<>>]} \cup {[op |-> "search", query |-> q] : q \in Queries}

Inputs(cursors) ==
    {[via |-> v, op |-> o.op, query |-> o.query, taskListId |-> tl,
      filters |-> NoFilters, cursor |-> c] :
        v \in {"service", "tool"}, o \in QueryInputs, tl \in Targets, c \in cursors}

\* The arguments before any request: list() without filters or cursor.
NoInput ==
    [via |-> "service", op |-> "list", query |-> <<>>, taskListId |-> "",
     filters |-> NoFilters, cursor |-> Undefined]

\* No second request: the locals of an idle list / search.
NoOther ==
    [pc |-> "idle", input |-> NoInput, call |-> ServiceCall(NoInput),
     pageToken |-> NoToken, taskLists |-> <<>>, fetch |-> <<>>,
     allTasks |-> <<>>, paginated |-> <<>>, response |-> NoResponse,
     regReqs |-> <<>>]

KeyOf(in) ==
    [via |-> in.via, op |-> in.op, query |-> in.query, taskListId |-> in.taskListId,
     filters |-> in.filters]

NoSession ==
    [key |-> KeyOf(NoInput),
     seen |-> <<>>, calls |-> 0, following |-> FALSE, lastNext |-> Null]

\* The request follows the previous one: same arguments, and the cursor
\* the previous response returned.
Follows(s, in) ==
    /\ s.following
    /\ s.calls > 0
    /\ in.cursor.present
    /\ in.cursor = s.lastNext
    /\ KeyOf(in) = s.key

StartSession(s, in) ==
    IF ~in.cursor.present
    THEN [key |-> KeyOf(in), seen |-> <<>>, calls |-> 0, following |-> TRUE,
          lastNext |-> Null]
    ELSE IF Follows(s, in) THEN s
    ELSE NoSession

EndSession(s, resp) ==
    IF s.following /\ resp.status = "ok"
    THEN [s EXCEPT !.seen = @ \o resp.body,
                   !.calls = @ + 1,
                   !.lastNext = resp.pagination.nextCursor]
    ELSE NoSession

\* A caller that keeps no response.
NotKeeping ==
    [keeping |-> FALSE, runs |-> 0, input |-> NoInput, response |-> NoResponse]

\* A caller that keeps the response of its first request: what it holds
\* after a request with arguments `in` was answered with `resp`.
Keep(k, in, resp) ==
    IF ~k.keeping THEN k
    ELSE IF k.runs = 0 THEN [k EXCEPT !.runs = 1, !.input = in, !.response = resp]
    ELSE [k EXCEPT !.runs = @ + 1]

(***************************************************************************)
(* fetchAllTaskLists, fetchAllTasksFromTaskList, fetchTasks                 *)
(***************************************************************************)
\* The arguments of one client.tasklists.list call.
RegistryRequest(token) == [maxResults |-> MAX_TASK_RESULTS, pageToken |-> token]

\* The arguments of one client.tasks.list call.
TasksRequest(id, listParams, token) ==
    [tasklist |-> id, params |-> listParams, pageToken |-> token]

\* The state of fetchAllTasksFromTaskList(id, listParams) on entry; its
\* first request is then in flight.
NewFetcher(id, listParams) ==
    [id |-> id, listParams |-> listParams, status |-> "running",
     pageToken |-> NoToken, tasks |-> <<>>,
     reqs |-> <<TasksRequest(id, listParams, NoToken)>>]

\* The drain gone wrong: the first native page is taken for the whole
\* collection.
FetchStep_FirstPageOnly(f, b) ==
    LET r == TasksList(b, f.id, f.listParams, f.pageToken)
    IN  IF ~r.ok THEN [f EXCEPT !.status = "rejected"]
        ELSE [f EXCEPT !.tasks = @ \o (IF r.hasItems THEN r.items ELSE <<>>),
                       !.pageToken = r.nextPageToken,
                       !.status = "fulfilled"]

\* The drain gone wrong: a failed page request is sent once more before
\* the drain gives up.
FetchStep_RetryOnce(f, b) ==
    LET r == TasksList(b, f.id, f.listParams, f.pageToken)
        req == TasksRequest(f.id, f.listParams, f.pageToken)
        tried == Len(SelectSeq(f.reqs, LAMBDA q : q = req))
    IN  IF ~r.ok /\ tried < 2 THEN [f EXCEPT !.reqs = Append(@, req)]
        ELSE IF ~r.ok THEN [f EXCEPT !.status = "rejected"]
        ELSE IF r.nextPageToken # NoToken
        THEN [f EXCEPT !.tasks = @ \o (IF r.hasItems THEN r.items ELSE <<>>),
                       !.pageToken = r.nextPageToken,
                       !.reqs = Append(@, TasksRequest(f.id, f.listParams,
                                                       r.nextPageToken))]
        ELSE [f EXCEPT !.tasks = @ \o (IF r.hasItems THEN r.items ELSE <<>>),
                       !.pageToken = r.nextPageToken,
                       !.status = "fulfilled"]

\* The drain gone wrong: a drain stops after two native pages.
FetchStep_CappedDrain(f, b) ==
    LET r == TasksList(b, f.id, f.listParams, f.pageToken)
    IN  IF ~r.ok THEN [f EXCEPT !.status = "rejected"]
        ELSE IF r.nextPageToken # NoToken /\ Len(f.reqs) < 2
        THEN [f EXCEPT !.tasks = @ \o (IF r.hasItems THEN r.items ELSE <<>>),
                       !.pageToken = r.nextPageToken,
                       !.reqs = Append(@, TasksRequest(f.id, f.listParams,
                                                       r.nextPageToken))]
        ELSE [f EXCEPT !.tasks = @ \o (IF r.hasItems THEN r.items ELSE <<>>),
                       !.pageToken = r.nextPageToken,
                       !.status = "fulfilled"]

\* One round of the do-while of fetchAllTasksFromTaskList: the awaited
\* response arrives, and the loop sends the next request or the promise
\* settles.
FetchStep(f, b) ==
    LET r == TasksList(b, f.id, f.listParams, f.pageToken)
    IN  IF ~r.ok THEN [f EXCEPT !.status = "rejected"]
        ELSE IF r.nextPageToken # NoToken
        THEN [f EXCEPT !.tasks = @ \o (IF r.hasItems THEN r.items ELSE <<>>),
                       !.pageToken = r.nextPageToken,
                       !.reqs = Append(@, TasksRequest(f.id, f.listParams,
                                                       r.nextPageToken))]
        ELSE [f EXCEPT !.tasks = @ \o (IF r.hasItems THEN r.items ELSE <<>>),
                       !.pageToken = r.nextPageToken,
                       !.status = "fulfilled"]

\* taskLists.filter((tl) => tl.id)
Keyed(lists) == SelectSeq(lists, LAMBDA id : id # "")

\* The merge gone wrong: one rejection discards everything (a fail-fast join).
MergeSettled_FailFast(results) ==
    IF \E i \in DOMAIN results : results[i].status = "rejected" THEN <<>>
    ELSE LET RECURSIVE Cat(_)
             Cat(rs) == IF Len(rs) = 0 THEN <<>> ELSE Head(rs).tasks \o Cat(Tail(rs))
         IN  Cat(results)

\* The merge gone wrong: the native pages a failed drain had fetched are
\* merged too.
MergeSettled_KeepsPartial(results) ==
    LET RECURSIVE Cat(_)
        Cat(rs) == IF Len(rs) = 0 THEN <<>> ELSE Head(rs).tasks \o Cat(Tail(rs))
    IN  Cat(results)

\* The loop over the settled results: fulfilled values concatenated in order.
RECURSIVE MergeSettled(_)
MergeSettled(results) ==
    IF Len(results) = 0 THEN <<>>
    ELSE LET rest == MergeSettled(Tail(results))
         IN  IF Head(results).status = "fulfilled"
             THEN Head(results).tasks \o rest
             ELSE rest

Settled(f) == f.status # "running"

(***************************************************************************)
(* Actions                                                                 *)
(***************************************************************************)
\* The request gone wrong: the registry accumulator outlives the request
\* (a field of the service instead of a local of fetchAllTaskLists).
Call_KeepsTaskLists(in) ==
    /\ pc = "idle"
    /\ Follows(session, in) => session.calls < MaxCalls
    /\ input' = in
    /\ call' = Dispatch(in)
    /\ session' = StartSession(session, in)
    /\ response' = NoResponse
    /\ allTasks' = <<>>
    /\ paginated' = <<>>
    /\ pageToken' = NoToken
    /\ taskLists' = taskLists
    /\ IF call'.taskListId # ""
       THEN /\ pc' = "single"
            /\ fetch' = <<NewFetcher(call'.taskListId, buildListParams(call'.filters))>>
            /\ regReqs' = <<>>
       ELSE /\ pc' = "registry"
            /\ fetch' = <<>>
            /\ regReqs' = <<RegistryRequest(NoToken)>>
    /\ settleLog' = [settleLog EXCEPT !.ids = <<>>]
    /\ UNCHANGED <<backend, kept, others>>

\* A request arrives; the handler runs up to its first await.
Call(in) ==
    /\ pc = "idle"
    /\ Follows(session, in) => session.calls < MaxCalls
    /\ input' = in
    /\ call' = Dispatch(in)
    /\ session' = StartSession(session, in)
    /\ response' = NoResponse
    /\ allTasks' = <<>>
    /\ paginated' = <<>>
    /\ pageToken' = NoToken
    /\ taskLists' = <<>>
    /\ IF call'.taskListId # ""
       THEN /\ pc' = "single"
            /\ fetch' = <<NewFetcher(call'.taskListId, buildListParams(call'.filters))>>
            /\ regReqs' = <<>>
       ELSE /\ pc' = "registry"
            /\ fetch' = <<>>
            /\ regReqs' = <<RegistryRequest(NoToken)>>
    /\ settleLog' = [settleLog EXCEPT !.ids = <<>>]
    /\ UNCHANGED <<backend, kept, others>>

\* fetchTasks resolves with `tasks`.
Resolve(tasks) ==
    /\ allTasks' = tasks
    /\ pc' = "fetched"
    /\ UNCHANGED <<paginated, response, session, kept>>

\* The request rejects.
Throw(msg) ==
    /\ response' = ErrorResponse(msg)
    /\ session' = EndSession(session, response')
    /\ kept' = Keep(kept, input, response')
    /\ pc' = "idle"
    /\ UNCHANGED <<allTasks, paginated>>

\* Search gone wrong: the merged set is paginated first and the predicate
\* is applied to the page.
Paginate_FilterAfterPaging ==
    /\ pc = "fetched"
    /\ paginated' = allTasks
    /\ LET r == PagedResponse(call, allTasks)
       IN  response' = IF r.status = "ok" /\ call.op = "search"
                       THEN [r EXCEPT !.body = FilterTasks(@, call.query)]
                       ELSE r
    /\ session' = EndSession(session, response')
    /\ kept' = Keep(kept, input, response')
    /\ pc' = "idle"
    /\ UNCHANGED <<backend, input, call, pageToken, taskLists, fetch, allTasks,
                   regReqs, others, settleLog>>

\* list / search resume after `await this.fetchTasks(filters)`: filter
\* (search), paginate, build the response or throw.
Paginate ==
    /\ pc = "fetched"
    /\ paginated' = ItemsToPaginate(call, allTasks)
    /\ response' = PagedResponse(call, paginated')
    /\ session' = EndSession(session, response')
    /\ kept' = Keep(kept, input, response')
    /\ pc' = "idle"
    /\ UNCHANGED <<backend, input, call, pageToken, taskLists, fetch, allTasks,
                   regReqs, others, settleLog>>

\* The registry drain gone wrong: a failed page request ends the drain with
\* the records fetched so far, and the fan-out goes on over them.
RegistryPage_PartialOnFailure ==
    /\ pc = "registry"
    /\ LET r == TasklistsList(backend, MAX_TASK_RESULTS, pageToken)
           lists == taskLists \o (IF r.hasItems THEN r.items ELSE <<>>)
       IN  /\ taskLists' = lists
           /\ pageToken' = r.nextPageToken
           /\ IF r.ok /\ r.nextPageToken # NoToken
              THEN /\ regReqs' = Append(regReqs, RegistryRequest(r.nextPageToken))
                   /\ UNCHANGED <<pc, fetch>>
              ELSE /\ pc' = "fanout"
                   /\ fetch' = [i \in 1..Len(Keyed(lists)) |->
                                   NewFetcher(Keyed(lists)[i],
                                              buildListParams(call.filters))]
                   /\ UNCHANGED regReqs
           /\ UNCHANGED <<allTasks, paginated, response, session, kept>>
    /\ UNCHANGED <<backend, input, call, others, settleLog>>

\* fetchAllTaskLists: a tasklists.list response arrives.
RegistryPage ==
    /\ pc = "registry"
    /\ LET r == TasklistsList(backend, MAX_TASK_RESULTS, pageToken)
           lists == taskLists \o (IF r.hasItems THEN r.items ELSE <<>>)
       IN  IF ~r.ok
           THEN /\ Throw(BackendErrorMsg)
                /\ UNCHANGED <<pageToken, taskLists, fetch, regReqs>>
           ELSE /\ taskLists' = lists
                /\ pageToken' = r.nextPageToken
                /\ IF r.nextPageToken # NoToken
                   THEN /\ regReqs' = Append(regReqs, RegistryRequest(r.nextPageToken))
                        /\ UNCHANGED <<pc, fetch>>
                   ELSE /\ pc' = "fanout"
                        /\ fetch' = [i \in 1..Len(Keyed(lists)) |->
                                        NewFetcher(Keyed(lists)[i],
                                                   buildListParams(call.filters))]
                        /\ UNCHANGED regReqs
                /\ UNCHANGED <<allTasks, paginated, response, session, kept>>
    /\ UNCHANGED <<backend, input, call, others, settleLog>>

\* fetchAllTasksFromTaskList number i: a tasks.list response arrives.
FetchPage(i) ==
    /\ pc \in {"fanout", "single"}
    /\ fetch[i].status = "running"
    /\ fetch' = [fetch EXCEPT ![i] = FetchStep(@, backend)]
    /\ settleLog' = IF settleLog.on /\ Settled(fetch'[i])
                    THEN [settleLog EXCEPT !.ids = Append(@, fetch[i].id)]
                    ELSE settleLog
    /\ UNCHANGED <<backend, pc, input, call, pageToken, taskLists, allTasks,
                   paginated, response, session, regReqs, kept, others>>

\* The join gone wrong: fetchTasks throws when no collection could be fetched.
FinishFanout_ThrowIfAllRejected ==
    /\ pc = "fanout"
    /\ \A i \in DOMAIN fetch : Settled(fetch[i])
    /\ IF Len(fetch) > 0 /\ \A i \in DOMAIN fetch : fetch[i].status = "rejected"
       THEN Throw(BackendErrorMsg)
       ELSE Resolve(MergeSettled(fetch))
    /\ UNCHANGED <<backend, input, call, pageToken, taskLists, fetch, regReqs,
                   others, settleLog>>

\* The join gone wrong: the results are merged in the order in which the
\* fetches settled (each pushed on completion), as far as that order was
\* recorded.
FinishFanout_CompletionOrder ==
    /\ pc = "fanout"
    /\ \A i \in DOMAIN fetch : Settled(fetch[i])
    /\ LET byCompletion ==
               [k \in 1..Len(settleLog.ids) |->
                   fetch[CHOOSE i \in DOMAIN fetch : fetch[i].id = settleLog.ids[k]]]
       IN  Resolve(MergeSettled(IF settleLog.on THEN byCompletion ELSE fetch))
    /\ UNCHANGED <<backend, input, call, pageToken, taskLists, fetch, regReqs,
                   others, settleLog>>

\* The join gone wrong: the first rejection ends the wait (a fail-fast
\* join that returns what has been fulfilled so far).
FinishFanout_EarlyOnRejection ==
    /\ pc = "fanout"
    /\ \/ \A i \in DOMAIN fetch : Settled(fetch[i])
       \/ \E i \in DOMAIN fetch : fetch[i].status = "rejected"
    /\ Resolve(MergeSettled(fetch))
    /\ UNCHANGED <<backend, input, call, pageToken, taskLists, fetch, regReqs,
                   others, settleLog>>

\* The join gone wrong: Promise.all in place of Promise.allSettled, one
\* rejected fetch rejects the request.
FinishFanout_ThrowOnAnyRejection ==
    /\ pc = "fanout"
    /\ \A i \in DOMAIN fetch : Settled(fetch[i])
    /\ IF \E i \in DOMAIN fetch : fetch[i].status = "rejected"
       THEN Throw(BackendErrorMsg)
       ELSE Resolve(MergeSettled(fetch))
    /\ UNCHANGED <<backend, input, call, pageToken, taskLists, fetch, regReqs,
                   others, settleLog>>

\* Promise.allSettled resolved: fetchTasks merges and returns.
FinishFanout ==
    /\ pc = "fanout"
    /\ \A i \in DOMAIN fetch : Settled(fetch[i])
    /\ Resolve(MergeSettled(fetch))
    /\ UNCHANGED <<backend, input, call, pageToken, taskLists, fetch, regReqs,
                   others, settleLog>>

\* The single fetch gone wrong: a failed drain resolves with the native
\* pages fetched before the failure.
FinishSingle_PartialOnFailure ==
    /\ pc = "single"
    /\ Settled(fetch[1])
    /\ Resolve(fetch[1].tasks)
    /\ UNCHANGED <<backend, input, call, pageToken, taskLists, fetch, regReqs,
                   others, settleLog>>

\* The single fetchAllTasksFromTaskList promise settled, and fetchTasks
\* with it.
FinishSingle ==
    /\ pc = "single"
    /\ Settled(fetch[1])
    /\ IF fetch[1].status = "fulfilled"
       THEN Resolve(fetch[1].tasks)
       ELSE Throw(BackendErrorMsg)
    /\ UNCHANGED <<backend, input, call, pageToken, taskLists, fetch, regReqs,
                   others, settleLog>>

Init ==
    /\ backend \in Backends
    /\ pc = "idle"
    /\ input = NoInput
    /\ call = ServiceCall(input)
    /\ pageToken = NoToken
    /\ taskLists = <<>>
    /\ fetch = <<>>
    /\ allTasks = <<>>
    /\ paginated = <<>>
    /\ response = NoResponse
    /\ session = NoSession
    /\ regReqs = <<>>
    /\ kept = NotKeeping
    /\ sent = NoWrite
    /\ read = NoRead
    /\ listing = NoListing
    /\ other = NoOther
    /\ settleLog = NotObserving

\* The cursors a caller passes: none, the one it was handed, or a probe.
CallCursors ==
    {Undefined} \cup ProbeCursors
        \cup (IF session.lastNext.present THEN {session.lastNext} ELSE {})

Next ==
    \/ \E in \in Inputs(CallCursors) : Call(in)
    \/ RegistryPage
    \/ \E i \in DOMAIN fetch : FetchPage(i)
    \/ FinishFanout
    \/ FinishSingle
    \/ Paginate

Spec == Init /\ [][Next]_vars

(***************************************************************************)
(* The pager on its own: list / search resuming after fetchTasks, with the *)
(* merged set and the cursor as inputs. The merged set is any prefix of    *)
(* the healthy backend's merge; the backend is not consulted again.        *)
(***************************************************************************)
HealthyBackend ==
    [registry |-> MasterRegistry, cap |-> BackendPageCap,
     regCap |-> RegistryPageCap, emptied |-> {}, endless |-> {},
     regFailAt |-> 0,
     failAt |-> [tl \in TaskListIds |-> 0]]

\* The merged set of the healthy backend.
FullMerge == TasksOf("A") \o TasksOf("B") \o TasksOf("D") \o TasksOf("C")

CanonicalCursors == {JsString(k) : k \in 0..(MaxItems + 1)}

MalformedCursors ==
    {Str(<<>>), Str(<<"a", "b", "c">>), Str(<<"-", "1">>), Str(<<"1", ".", "5">>),
     Str(<<"1", "2", "a", "b", "c">>), Str(<<"1", "0", "0", "0">>),
     Str(<<" ", "7">>), Str(<<"+", "7">>), Str(<<"-", "0">>), Str(<<"0", "0", "7">>),
     Str(<<"-">>), Str(<<".", "5">>)}

PagerCursors == {Undefined} \cup CanonicalCursors \cup MalformedCursors

\* The queries tried against the pager: those of the caller, the empty
\* query and one in upper case.
PagerQueries == Queries \cup {<<>>, <<"E", "G", "G">>}

PagerInputs ==
    {[via |-> "service", op |-> "list", query |-> <<>>, taskListId |-> "",
      filters |-> NoFilters, cursor |-> c] : c \in PagerCursors}
    \cup
    {[via |-> "service", op |-> "search", query |-> q, taskListId |-> "",
      filters |-> NoFilters, cursor |-> c] : q \in PagerQueries, c \in PagerCursors}

InitPager ==
    /\ backend = HealthyBackend
    /\ pc = "fetched"
    /\ input \in PagerInputs
    /\ call = ServiceCall(input)
    /\ pageToken = NoToken
    /\ taskLists = <<>>
    /\ fetch = <<>>
    /\ \E n \in 0..Min(MaxItems, Len(FullMerge)) : allTasks = SubSeq(FullMerge, 1, n)
    /\ paginated = <<>>
    /\ response = NoResponse
    /\ session = StartSession(NoSession, input)
    /\ regReqs = <<>>
    /\ kept = NotKeeping
    /\ sent = NoWrite
    /\ read = NoRead
    /\ listing = NoListing
    /\ other = NoOther
    /\ settleLog = NotObserving

NextPager == Paginate

SpecPager == InitPager /\ [][NextPager]_vars

(***************************************************************************)
(* Drains of many native pages: list() through TaskService against healthy *)
(* backends that serve small native pages.                                 *)
(***************************************************************************)
DrainBackends ==
    [registry : Prefixes(MasterRegistry),
     cap : {SmallPageCap, BackendPageCap},
     regCap : {SmallRegistryCap, RegistryPageCap},
     emptied : {{}},
     endless : {{}},
     regFailAt : {0},
     failAt : {[tl \in TaskListIds |-> 0]}]

DrainInputs ==
    {in \in Inputs({Undefined}) : in.via = "service" /\ in.op = "list"}

InitDrain ==
    /\ backend \in DrainBackends
    /\ pc = "idle"
    /\ input = NoInput
    /\ call = ServiceCall(input)
    /\ pageToken = NoToken
    /\ taskLists = <<>>
    /\ fetch = <<>>
    /\ allTasks = <<>>
    /\ paginated = <<>>
    /\ response = NoResponse
    /\ session = NoSession
    /\ regReqs = <<>>
    /\ kept = NotKeeping
    /\ sent = NoWrite
    /\ read = NoRead
    /\ listing = NoListing
    /\ other = NoOther
    /\ settleLog = NotObserving

NextDrain ==
    \/ \E in \in DrainInputs : Call(in)
    \/ RegistryPage
    \/ \E i \in DOMAIN fetch : FetchPage(i)
    \/ FinishFanout
    \/ FinishSingle
    \/ Paginate

SpecDrain == InitDrain /\ [][NextDrain]_vars

(***************************************************************************)
(* The fan-out under observation: list / search without taskListId over    *)
(* the whole registry, collections failing or not, with the order in which *)
(* the concurrent fetches settle recorded.                                 *)
(***************************************************************************)
OrderBackends == {b \in Backends : b.registry = MasterRegistry /\ b.regFailAt = 0}

OrderInputs ==
    {in \in Inputs({Undefined}) :
        in.via = "service" /\ in.taskListId = "" /\ in.query # <<"t", "e", "a">>}

InitOrder ==
    /\ backend \in OrderBackends
    /\ pc = "idle"
    /\ input = NoInput
    /\ call = ServiceCall(input)
    /\ pageToken = NoToken
    /\ taskLists = <<>>
    /\ fetch = <<>>
    /\ allTasks = <<>>
    /\ paginated = <<>>
    /\ response = NoResponse
    /\ session = NoSession
    /\ regReqs = <<>>
    /\ kept = NotKeeping
    /\ sent = NoWrite
    /\ read = NoRead
    /\ listing = NoListing
    /\ other = NoOther
    /\ settleLog = [NotObserving EXCEPT !.on = TRUE]

NextOrder ==
    \/ \E in \in OrderInputs : Call(in)
    \/ RegistryPage
    \/ \E i \in DOMAIN fetch : FetchPage(i)
    \/ FinishFanout
    \/ Paginate

SpecOrder == InitOrder /\ [][NextOrder]_vars

(***************************************************************************)
(* The same request sent again: a caller of TaskService.list / search      *)
(* keeps the first answer and repeats the request on the same backend.     *)
(***************************************************************************)
RepeatInputs ==
    {in \in Inputs({Undefined, Str(<<"2", "0">>)}) : in.via = "service"}

InitRepeat ==
    /\ backend \in Backends
    /\ pc = "idle"
    /\ input = NoInput
    /\ call = ServiceCall(input)
    /\ pageToken = NoToken
    /\ taskLists = <<>>
    /\ fetch = <<>>
    /\ allTasks = <<>>
    /\ paginated = <<>>
    /\ response = NoResponse
    /\ session = NoSession
    /\ regReqs = <<>>
    /\ kept = [NotKeeping EXCEPT !.keeping = TRUE]
    /\ sent = NoWrite
    /\ read = NoRead
    /\ listing = NoListing
    /\ other = NoOther
    /\ settleLog = NotObserving

\* The caller sends a request, the one it sent before if there is one.
RepeatCall ==
    /\ kept.runs < MaxRuns
    /\ \E in \in RepeatInputs :
          /\ kept.runs > 0 => in = kept.input
          /\ Call(in)

NextRepeat ==
    \/ RepeatCall
    \/ RegistryPage
    \/ \E i \in DOMAIN fetch : FetchPage(i)
    \/ FinishFanout
    \/ FinishSingle
    \/ Paginate

SpecRepeat == InitRepeat /\ [][NextRepeat]_vars

----------------------------------------------------------------------------
\* Failing collections against empty ones: a request without taskListId
\* is answered by a backend some of whose collections fail; the failing
\* collections then become healthy and empty, and the same request is
\* sent again.

MaskBackends ==
    {b \in Backends :
        /\ b.regFailAt = 0
        /\ \E tl \in TaskListIds : InRegistry(b, tl) /\ b.failAt[tl] # 0}

MaskInputs ==
    {in \in Inputs({Undefined, Str(<<"2", "0">>)}) :
        in.via = "service" /\ in.taskListId = ""}

InitMask ==
    /\ backend \in MaskBackends
    /\ pc = "idle"
    /\ input = NoInput
    /\ call = ServiceCall(input)
    /\ pageToken = NoToken
    /\ taskLists = <<>>
    /\ fetch = <<>>
    /\ allTasks = <<>>
    /\ paginated = <<>>
    /\ response = NoResponse
    /\ session = NoSession
    /\ regReqs = <<>>
    /\ kept = [NotKeeping EXCEPT !.keeping = TRUE]
    /\ sent = NoWrite
    /\ read = NoRead
    /\ listing = NoListing
    /\ other = NoOther
    /\ settleLog = NotObserving

\* The caller sends a request; once the collections have been repaired it
\* sends the first request again.
MaskCall ==
    /\ kept.runs < MaxRuns
    /\ \E in \in MaskInputs :
          /\ kept.runs > 0 => (in = kept.input /\ backend.emptied # {})
          /\ Call(in)

\* Between two requests every failing collection turns into one that
\* answers, with no tasks.
FailuresBecomeEmpty ==
    /\ pc = "idle"
    /\ kept.runs = 1
    /\ backend.emptied = {}
    /\ backend' =
          [backend EXCEPT
              !.emptied = {tl \in TaskListIds :
                              InRegistry(backend, tl) /\ backend.failAt[tl] # 0},
              !.failAt = [tl \in DOMAIN backend.failAt |-> 0]]
    /\ UNCHANGED <<pc, input, call, pageToken, taskLists, fetch, allTasks,
                   paginated, response, session, regReqs, kept, others,
                   settleLog>>

NextMask ==
    \/ MaskCall
    \/ FailuresBecomeEmpty
    \/ RegistryPage
    \/ \E i \in DOMAIN fetch : FetchPage(i)
    \/ FinishFanout
    \/ Paginate

SpecMask == InitMask /\ [][NextMask]_vars

----------------------------------------------------------------------------
\* Two requests on one TaskService.  The service has one field, the
\* client; everything else a list or search works on is local to the call.
\* The variables pc .. regReqs are the locals of the request the event loop
\* is running, `other` those of the request suspended at an await.  The
\* caller first sends one request alone and keeps its response, then sends
\* requests on both, the loop switching between them at any await.

IsolationBackends ==
    {b \in Backends :
        /\ b.registry = MasterRegistry
        /\ b.regFailAt = 0
        /\ b.failAt["B"] = 0 /\ b.failAt["D"] = 0 /\ b.failAt["C"] = 0}

IsolationInputs ==
    {in \in Inputs({Undefined}) :
        /\ in.via = "service"
        /\ in.taskListId \in {"", "A"}
        /\ in.query # <<"t", "e", "a">>}

InitIsolation ==
    /\ backend \in IsolationBackends
    /\ pc = "idle"
    /\ input = NoInput
    /\ call = ServiceCall(input)
    /\ pageToken = NoToken
    /\ taskLists = <<>>
    /\ fetch = <<>>
    /\ allTasks = <<>>
    /\ paginated = <<>>
    /\ response = NoResponse
    /\ session = NoSession
    /\ regReqs = <<>>
    /\ kept = [NotKeeping EXCEPT !.keeping = TRUE]
    /\ sent = NoWrite
    /\ read = NoRead
    /\ listing = NoListing
    /\ other = NoOther
    /\ settleLog = NotObserving

\* The locals of the running request.
Frame ==
    [pc |-> pc, input |-> input, call |-> call, pageToken |-> pageToken,
     taskLists |-> taskLists, fetch |-> fetch, allTasks |-> allTasks,
     paginated |-> paginated, response |-> response, regReqs |-> regReqs]

\* The switch gone wrong: taskLists is a field of the service, shared by
\* the two requests.
Switch_SharedTaskLists ==
    /\ kept.runs >= 1
    /\ other' = Frame
    /\ pc' = other.pc
    /\ input' = other.input
    /\ call' = other.call
    /\ pageToken' = other.pageToken
    /\ fetch' = other.fetch
    /\ allTasks' = other.allTasks
    /\ paginated' = other.paginated
    /\ response' = other.response
    /\ regReqs' = other.regReqs
    /\ UNCHANGED <<backend, taskLists, session, kept, sent, read, listing,
                   settleLog>>

\* The running request is suspended at an await (or has returned) and the
\* event loop continues the other one.
Switch ==
    /\ kept.runs >= 1
    /\ other' = Frame
    /\ pc' = other.pc
    /\ input' = other.input
    /\ call' = other.call
    /\ pageToken' = other.pageToken
    /\ taskLists' = other.taskLists
    /\ fetch' = other.fetch
    /\ allTasks' = other.allTasks
    /\ paginated' = other.paginated
    /\ response' = other.response
    /\ regReqs' = other.regReqs
    /\ UNCHANGED <<backend, session, kept, sent, read, listing, settleLog>>

\* The caller sends a request: the first one alone; after its response,
\* the same request and any other one, one per side.
IsolationCall ==
    \/ /\ kept.runs = 0
       /\ response = NoResponse
       /\ \E in \in IsolationInputs : Call(in)
    \/ /\ kept.runs = 1
       /\ input = kept.input
       /\ response = kept.response
       /\ Call(kept.input)
    \/ /\ kept.runs >= 1
       /\ response = NoResponse
       /\ input = NoInput
       /\ \E in \in IsolationInputs : Call(in)

NextIsolation ==
    \/ IsolationCall
    \/ Switch
    \/ RegistryPage
    \/ \E i \in DOMAIN fetch : FetchPage(i)
    \/ FinishFanout
    \/ FinishSingle
    \/ Paginate

SpecIsolation == InitIsolation /\ [][NextIsolation]_vars

----------------------------------------------------------------------------
\* Paging over a backend that changes between the requests: collections
\* are emptied and filled again while the caller follows the cursors it
\* is given.

ChangingLists == {"A", "B", "C"}

ChangingBackends ==
    {[HealthyBackend EXCEPT !.emptied = e] : e \in SUBSET ChangingLists}

ChangeInputs ==
    {in \in Inputs({Undefined}) : in.op = "list" /\ in.taskListId = ""}

InitChange ==
    /\ backend \in ChangingBackends
    /\ pc = "idle"
    /\ input = NoInput
    /\ call = ServiceCall(input)
    /\ pageToken = NoToken
    /\ taskLists = <<>>
    /\ fetch = <<>>
    /\ allTasks = <<>>
    /\ paginated = <<>>
    /\ response = NoResponse
    /\ session = NoSession
    /\ regReqs = <<>>
    /\ kept = [NotKeeping EXCEPT !.keeping = TRUE]
    /\ sent = NoWrite
    /\ read = NoRead
    /\ listing = NoListing
    /\ other = NoOther
    /\ settleLog = NotObserving

\* The caller sends a request with the nextCursor of the last response if
\* it had one, without cursor otherwise.
ChangeCall ==
    LET cursorToFollow ==
            IF response.status = "ok"
            THEN (IF Truthy(response.pagination.nextCursor)
                  THEN response.pagination.nextCursor ELSE Undefined)
            ELSE Undefined
    IN  /\ kept.runs < MaxRuns + 1
        /\ \E in \in ChangeInputs : Call([in EXCEPT !.cursor = cursorToFollow])

\* Between two requests tasks are deleted from or inserted into the
\* backend: a different set of collections is empty.
BackendChanges ==
    /\ pc = "idle"
    /\ response.status = "ok"
    /\ \E e \in SUBSET ChangingLists :
          /\ e # backend.emptied
          /\ backend' = [backend EXCEPT !.emptied = e]
    /\ UNCHANGED <<pc, input, call, pageToken, taskLists, fetch, allTasks,
                   paginated, response, session, regReqs, kept, others,
                   settleLog>>

NextChange ==
    \/ ChangeCall
    \/ BackendChanges
    \/ RegistryPage
    \/ \E i \in DOMAIN fetch : FetchPage(i)
    \/ FinishFanout
    \/ Paginate

SpecChange == InitChange /\ [][NextChange]_vars

----------------------------------------------------------------------------
\* Progress of one request: every awaited backend call responds, so every
\* continuation that is ready to run does run.  Some backends have a
\* collection whose paging never ends.

LiveBackends ==
    {b \in [registry : {MasterRegistry},
            cap : {SmallPageCap, BackendPageCap},
            regCap : {RegistryPageCap},
            emptied : {{}},
            endless : {{}, {"A"}, {"C"}},
            regFailAt : {0, 1},
            failAt : [TaskListIds -> {0, 2}]] :
        /\ b.failAt["A"] = 0 /\ b.failAt["C"] = 0 /\ b.failAt["D"] = 0
        /\ b.endless # {} => b.regFailAt = 0}

InitLive ==
    /\ backend \in LiveBackends
    /\ pc = "idle"
    /\ input = NoInput
    /\ call = ServiceCall(input)
    /\ pageToken = NoToken
    /\ taskLists = <<>>
    /\ fetch = <<>>
    /\ allTasks = <<>>
    /\ paginated = <<>>
    /\ response = NoResponse
    /\ session = NoSession
    /\ regReqs = <<>>
    /\ kept = [NotKeeping EXCEPT !.keeping = TRUE]
    /\ sent = NoWrite
    /\ read = NoRead
    /\ listing = NoListing
    /\ other = NoOther
    /\ settleLog = NotObserving

\* The caller sends one request.
LiveCall ==
    /\ kept.runs = 0
    /\ \E in \in DrainInputs : Call(in)

\* The response to the page request of fetch i arrives, as long as the
\* drain is followed.
LiveFetchPage(i) ==
    /\ i \in DOMAIN fetch
    /\ Len(fetch[i].reqs) < MaxRequests
    /\ FetchPage(i)

NextLive ==
    \/ LiveCall
    \/ RegistryPage
    \/ \E i \in 1..Len(MasterRegistry) : LiveFetchPage(i)
    \/ FinishFanout
    \/ FinishSingle
    \/ Paginate

\* Every backend call responds and every resolved await is continued.
Responsive ==
    /\ WF_vars(RegistryPage)
    /\ \A i \in 1..Len(MasterRegistry) : WF_vars(LiveFetchPage(i))
    /\ WF_vars(FinishFanout)
    /\ WF_vars(FinishSingle)
    /\ WF_vars(Paginate)

SpecLive == InitLive /\ [][NextLive]_vars /\ Responsive

(***************************************************************************)
(* TaskService.create / update / delete / clear, next to list / search.    *)
(* A write operation is followed up to the request it delivers to the      *)
(* backend and the answer it returns; the collections list / search read   *)
(* stay those of TasksOf. taskListId is "" when the caller leaves it out   *)
(* (`||` treats the empty string and undefined alike).                     *)
(***************************************************************************)
\* The addressing gone wrong: a write without taskListId is sent without
\* a collection.
OrDefault_NoDefault(taskListId) == taskListId

\* `taskListId || "@default"`
OrDefault(taskListId) == IF taskListId # "" THEN taskListId ELSE DefaultAlias

\* `if (args.x !== undefined) task.x = args.x`
IfPresent(x) == IF x.present THEN Str(x.s) ELSE Undefined

WriteTargets == {"", "A", DefaultAlias}

WriteTaskIds == {101}

WriteTitles == {Str(<<"T", "e", "a">>)}

WriteNotes == {Undefined, Str(<<"h", "o", "t">>)}

\* A request handed to this.client, awaiting its answer.
Pending(method, args, params) ==
    [method |-> method, args |-> args, tasklist |-> params.tasklist,
     params |-> params, status |-> "pending", text |-> <<>>]

\* create(args) up to `await this.client.tasks.insert(insertParams)`.
Create(args) ==
    /\ sent.status # "pending"
    /\ sent' = Pending("tasks.insert", args,
                       [tasklist |-> OrDefault(args.taskListId),
                        requestBody |-> [title |-> args.title,
                                         notes |-> IfTruthy(args.notes),
                                         due |-> IfTruthy(args.due),
                                         status |-> IfTruthy(args.status)],
                        parent |-> IfTruthy(args.parent),
                        previous |-> IfTruthy(args.previous)])
    /\ UNCHANGED <<backend, listVars, read, listing>>

\* update(args) up to `await this.client.tasks.patch(...)`.
Update(args) ==
    /\ sent.status # "pending"
    /\ sent' = Pending("tasks.patch", args,
                       [tasklist |-> OrDefault(args.taskListId),
                        task |-> args.id,
                        requestBody |-> [id |-> args.id,
                                         title |-> IfPresent(args.title),
                                         notes |-> IfPresent(args.notes),
                                         status |-> IfPresent(args.status),
                                         due |-> IfPresent(args.due)]])
    /\ UNCHANGED <<backend, listVars, read, listing>>

\* delete(taskListId, taskId) up to `await this.client.tasks.delete(...)`.
Delete(taskListId, taskId) ==
    /\ sent.status # "pending"
    /\ sent' = Pending("tasks.delete", [taskListId |-> taskListId, id |-> taskId],
                       [tasklist |-> OrDefault(taskListId), task |-> taskId])
    /\ UNCHANGED <<backend, listVars, read, listing>>

\* clear(taskListId) up to `await this.client.tasks.clear(...)`.
Clear(taskListId) ==
    /\ sent.status # "pending"
    /\ sent' = Pending("tasks.clear", [taskListId |-> taskListId],
                       [tasklist |-> OrDefault(taskListId)])
    /\ UNCHANGED <<backend, listVars, read, listing>>

\* The text a write operation returns once the backend has answered:
\* "Task created: {title}", "Task updated: {title}", "Task {id} deleted",
\* "Tasks from tasklist {taskListId || "@default"} cleared".
WriteText(w) ==
    CASE w.method = "tasks.insert" -> <<"created", w.params.requestBody.title>>
      [] w.method = "tasks.patch" ->
            <<"updated", IF w.params.requestBody.title.present
                         THEN w.params.requestBody.title
                         ELSE TaskTitle(w.params.task)>>
      [] w.method = "tasks.delete" -> <<"deleted", w.params.task>>
      [] w.method = "tasks.clear" -> <<"cleared", OrDefault(w.args.taskListId)>>

\* The backend answers the pending write request, or rejects it; the
\* operation returns its text or throws.
WriteReturn ==
    /\ sent.status = "pending"
    /\ \E ok \in BOOLEAN :
          sent' = IF ok
                  THEN [sent EXCEPT !.status = "done", !.text = WriteText(sent)]
                  ELSE [sent EXCEPT !.status = "failed"]
    /\ UNCHANGED <<backend, listVars, read, listing>>

CreateArgs ==
    [taskListId : WriteTargets, title : WriteTitles, notes : WriteNotes,
     status : {Undefined}, due : {Undefined},
     parent : {Undefined}, previous : {Undefined}]

UpdateArgs ==
    [taskListId : WriteTargets, id : WriteTaskIds,
     title : {Undefined} \cup WriteTitles, notes : WriteNotes,
     status : {Undefined}, due : {Undefined}]

\* Healthy backends with every registry the model knows.
WriteBackends == {b \in DrainBackends : b.cap = BackendPageCap /\ b.regCap = RegistryPageCap}

\* list / search through TaskService without cursor, the alias among the
\* collections asked for.
WriteSideInputs ==
    {[via |-> "service", op |-> o.op, query |-> o.query, taskListId |-> tl,
      filters |-> NoFilters, cursor |-> Undefined] :
        o \in {[op |-> "list", query |-> <<>>],
                [op |-> "search", query |-> <<"m", "i", "L", "K">>]},
        tl \in WriteTargets}

InitWrite ==
    /\ backend \in WriteBackends
    /\ pc = "idle"
    /\ input = NoInput
    /\ call = ServiceCall(input)
    /\ pageToken = NoToken
    /\ taskLists = <<>>
    /\ fetch = <<>>
    /\ allTasks = <<>>
    /\ paginated = <<>>
    /\ response = NoResponse
    /\ session = NoSession
    /\ regReqs = <<>>
    /\ kept = NotKeeping
    /\ sent = NoWrite
    /\ read = NoRead
    /\ listing = NoListing
    /\ other = NoOther
    /\ settleLog = NotObserving

NextWrite ==
    \/ \E args \in CreateArgs : Create(args)
    \/ \E args \in UpdateArgs : Update(args)
    \/ \E tl \in WriteTargets, t \in WriteTaskIds : Delete(tl, t)
    \/ \E tl \in WriteTargets : Clear(tl)
    \/ WriteReturn
    \/ \E in \in WriteSideInputs : Call(in)
    \/ RegistryPage
    \/ \E i \in DOMAIN fetch : FetchPage(i)
    \/ FinishFanout
    \/ FinishSingle
    \/ Paginate

SpecWrite == InitWrite /\ [][NextWrite]_vars

(***************************************************************************)
(* list through the tool and through TaskService with the four flags set   *)
(* to true, set to false or left out, against the healthy backend.         *)
(***************************************************************************)
OptionalBooleans == {Unset, Flag(TRUE), Flag(FALSE)}

FlagFilters ==
    {[NoFilters EXCEPT !.showCompleted = c, !.showHidden = h,
                       !.showDeleted = d, !.showAssigned = a] :
        c \in OptionalBooleans, h \in OptionalBooleans,
        d \in OptionalBooleans, a \in OptionalBooleans}

FilterInputs ==
    {[via |-> v, op |-> "list", query |-> <<>>, taskListId |-> tl,
      filters |-> f, cursor |-> Undefined] :
        v \in {"service", "tool"}, tl \in {"", "A"}, f \in FlagFilters}

InitFilters ==
    /\ backend = HealthyBackend
    /\ pc = "idle"
    /\ input = NoInput
    /\ call = ServiceCall(input)
    /\ pageToken = NoToken
    /\ taskLists = <<>>
    /\ fetch = <<>>
    /\ allTasks = <<>>
    /\ paginated = <<>>
    /\ response = NoResponse
    /\ session = NoSession
    /\ regReqs = <<>>
    /\ kept = NotKeeping
    /\ sent = NoWrite
    /\ read = NoRead
    /\ listing = NoListing
    /\ other = NoOther
    /\ settleLog = NotObserving

NextFilters ==
    \/ \E in \in FilterInputs : Call(in)
    \/ RegistryPage
    \/ \E i \in DOMAIN fetch : FetchPage(i)
    \/ FinishFanout
    \/ FinishSingle
    \/ Paginate

SpecFilters == InitFilters /\ [][NextFilters]_vars

(***************************************************************************)
(* TaskResourceHandler.read(taskId): one tasklists.list request, one       *)
(* tasks.get per listed collection joined by Promise.allSettled, the first *)
(* fulfilled result returned. Next to it TaskListService.list(), the       *)
(* handler of the list_task_lists tool: one tasklists.list request.        *)
(***************************************************************************)
TaskNotFoundMsg == "Task not found"

\* read(taskId) up to `await this.client.tasklists.list({maxResults})`.
ReadCall(taskId) ==
    /\ read.pc \in {"idle", "done"}
    /\ read' = [pc |-> "registry", taskId |-> taskId, taskLists |-> <<>>,
                results |-> <<>>, outcome |-> NoResponse]
    /\ UNCHANGED <<backend, listVars, sent, listing>>

\* The tasklists.list response arrives: read throws with the backend's
\* error, or starts one tasks.get for each listed record that has an id.
ReadRegistry ==
    /\ read.pc = "registry"
    /\ LET r == TasklistsList(backend, MAX_TASK_RESULTS, NoToken)
           lists == IF r.hasItems THEN r.items ELSE <<>>
       IN  read' = IF ~r.ok
                   THEN [read EXCEPT !.pc = "done",
                                     !.outcome = ErrorResponse(BackendErrorMsg)]
                   ELSE [read EXCEPT !.pc = "gets",
                                     !.taskLists = lists,
                                     !.results = [i \in 1..Len(Keyed(lists)) |->
                                                     [tasklist |-> Keyed(lists)[i],
                                                      status |-> "pending",
                                                      data |-> 0]]]
    /\ UNCHANGED <<backend, listVars, sent, listing>>

\* The tasks.get for the i-th listed collection settles.
ReadGet(i) ==
    /\ read.pc = "gets"
    /\ read.results[i].status = "pending"
    /\ LET r == TasksGet(backend, read.results[i].tasklist, read.taskId)
       IN  read' = [read EXCEPT !.results[i].status =
                                     IF r.ok THEN "fulfilled" ELSE "rejected",
                                 !.results[i].data = r.data]
    /\ UNCHANGED <<backend, listVars, sent, listing>>

\* results.find((r) => r.status === "fulfilled")
FirstFulfilled(results) ==
    LET hits == SelectSeq(results, LAMBDA r : r.status = "fulfilled")
    IN  IF Len(hits) > 0
        THEN [found |-> TRUE, data |-> hits[1].data]
        ELSE [found |-> FALSE, data |-> 0]

\* Promise.allSettled resolved: read returns the first fulfilled result's
\* task or throws "Task not found".
ReadFinish ==
    /\ read.pc = "gets"
    /\ \A i \in DOMAIN read.results : read.results[i].status # "pending"
    /\ LET f == FirstFulfilled(read.results)
       IN  read' = [read EXCEPT !.pc = "done",
                                !.outcome = IF f.found
                                            THEN [status |-> "ok", task |-> f.data]
                                            ELSE ErrorResponse(TaskNotFoundMsg)]
    /\ UNCHANGED <<backend, listVars, sent, listing>>

\* TaskListService.list() up to `await this.client.tasklists.list({maxResults})`.
ListTaskLists ==
    /\ listing.pc \in {"idle", "done"}
    /\ listing' = [pc |-> "awaiting", outcome |-> NoResponse]
    /\ UNCHANGED <<backend, listVars, sent, read>>

\* The tasklists.list response arrives: list throws with the backend's
\* error, or returns "Found {taskLists.length} task lists:" and one line
\* for each record of the response.
ListTaskListsReturn ==
    /\ listing.pc = "awaiting"
    /\ LET r == TasklistsList(backend, MAX_TASK_RESULTS, NoToken)
           lists == IF r.hasItems THEN r.items ELSE <<>>
       IN  listing' = [pc |-> "done",
                       outcome |-> IF ~r.ok THEN ErrorResponse(BackendErrorMsg)
                                   ELSE [status |-> "ok", found |-> Len(lists),
                                         lines |-> lists]]
    /\ UNCHANGED <<backend, listVars, sent, read>>

\* Task ids a reader asks for: the first and last task of A, a task of B,
\* the first and last task of C, and an id no collection holds.
ReadTaskIds ==
    {TasksOf("A")[1], TasksOf("A")[BigList], TasksOf("B")[1],
     TasksOf("C")[1], TasksOf("C")[SmallList], ListBase("D") + 1}

\* Healthy collections behind every registry the model knows, the first
\* registry request failing or not.
ReadBackends ==
    [registry : Prefixes(MasterRegistry),
     cap : {BackendPageCap},
     regCap : {RegistryPageCap},
     emptied : {{}},
     endless : {{}},
     regFailAt : {0, 1},
     failAt : {[tl \in TaskListIds |-> 0]}]

InitRead ==
    /\ backend \in ReadBackends
    /\ pc = "idle"
    /\ input = NoInput
    /\ call = ServiceCall(input)
    /\ pageToken = NoToken
    /\ taskLists = <<>>
    /\ fetch = <<>>
    /\ allTasks = <<>>
    /\ paginated = <<>>
    /\ response = NoResponse
    /\ session = NoSession
    /\ regReqs = <<>>
    /\ kept = NotKeeping
    /\ sent = NoWrite
    /\ read = NoRead
    /\ listing = NoListing
    /\ other = NoOther
    /\ settleLog = NotObserving

NextRead ==
    \/ \E t \in ReadTaskIds : ReadCall(t)
    \/ ReadRegistry
    \/ \E i \in DOMAIN read.results : ReadGet(i)
    \/ ReadFinish
    \/ ListTaskLists
    \/ ListTaskListsReturn

SpecRead == InitRead /\ [][NextRead]_vars
(***************************************************************************)
(* Properties                                                              *)
(***************************************************************************)
CeilDiv(a, b) == (a + b - 1) \div b

\* s is the decimal numeral of n: digits only, no leading zero, value n.
IsDecimalOf(s, n) ==
    /\ Len(s) > 0
    /\ \A i \in 1..Len(s) : IsDigit(s[i])
    /\ Len(s) > 1 => s[1] # "0"
    /\ ReadDigits(s, 1, 0) = n

\* A request has completed (with a response or an error).
Completed == pc = "idle" /\ response.status # "none"

\* The caller is following next cursors from a first call without cursor,
\* and the last call of the chain has returned.
Following == pc = "idle" /\ session.following /\ session.calls > 0

\* C1: on an unchanged backend, TaskService.list called without cursor and
\* then with each returned nextCursor returns the merged set item by item,
\* each exactly once and in merged order, 20 per call; the cursors are
\* "20", "40", ...; nextCursor is null exactly on call number ceil(N/20)
\* (call 1 when N = 0).
C1_PaginationCoverage ==
    (Following /\ input.via = "service" /\ input.op = "list") =>
        LET n == Len(paginated)
            calls == session.calls
            next == response.pagination.nextCursor
        IN  /\ paginated = allTasks
            /\ session.seen = SubSeq(paginated, 1, Min(20 * calls, n))
            /\ next.present <=> 20 * calls < n
            /\ next.present => IsDecimalOf(next.s, 20 * calls)
            /\ ~next.present =>
                  /\ session.seen = paginated
                  /\ calls = IF n = 0 THEN 1 ELSE CeilDiv(n, 20)

\* C1 witness: three calls have covered a merged set of more than 40 items.
C1_Witness ==
    /\ Following /\ input.via = "service" /\ input.op = "list"
    /\ session.calls = 3
    /\ Len(paginated) > 40
    /\ session.seen = paginated
    /\ ~response.pagination.nextCursor.present

\* C2 (as claimed): the list tool, invoked with the nextCursor of the
\* previous list-tool call and the same filters, returns the page that
\* starts at the cursor's offset.
C2_ListToolHonoursCursor ==
    (Following /\ input.via = "tool" /\ input.op = "list" /\ session.calls > 1) =>
        /\ input.cursor.present
        /\ response.pagination.offset = ReadDigits(input.cursor.s, 1, 0)

\* C3 (as claimed): a caller of the search tool that follows each returned
\* nextCursor with the same query and filters has, after ceil(N/20) calls,
\* received every one of the N matching tasks.
C3_SearchToolReachesAllMatches ==
    (/\ Following /\ input.via = "tool" /\ input.op = "search"
     /\ 20 * session.calls >= Len(paginated)) =>
        session.seen = paginated

\* The malformed cursors the decoding rule names: non-numeric, negative,
\* fractional, digits followed by other characters.
NamedMalformedCursors ==
    {Str(<<"a", "b", "c">>), Str(<<"-", "1">>), Str(<<"1", ".", "5">>),
     Str(<<"1", "2", "a", "b", "c">>)}

\* C4 (as claimed): an absent cursor decodes to offset 0 and is never
\* refused as invalid, and each of the cursors "abc", "-1", "1.5", "12abc"
\* makes list / search fail without returning a page.
C4_CursorDecoding ==
    Completed =>
        /\ ~call.cursor.present =>
              /\ response.status = "ok" => response.pagination.offset = 0
              /\ response # ErrorResponse(InvalidCursorMsg)
        /\ call.cursor \in NamedMalformedCursors => response.status = "error"

\* C5: when the set being paginated has n > 0 items, a cursor that decodes
\* to an offset >= n fails with the invalid-cursor error and one that
\* decodes to an offset in 0..n-1 succeeds.
C5_BoundsCheck ==
    (Completed /\ Len(paginated) > 0 /\ parseCursor(call.cursor).ok) =>
        IF parseCursor(call.cursor).offset >= Len(paginated)
        THEN response = ErrorResponse(InvalidCursorMsg)
        ELSE response.status = "ok"

\* C5 witness: a cursor equal to the length of a non-empty set was refused.
C5_Witness ==
    /\ Completed
    /\ Len(paginated) > 0
    /\ call.cursor = JsString(Len(paginated))
    /\ response.status = "error"

\* C6: when the set being paginated is empty, an absent cursor and any
\* cursor that decodes to a non-negative integer succeed with an empty
\* page, total = 0, returned = 0 and nextCursor = null.
C6_EmptyLeniency ==
    (Completed /\ Len(paginated) = 0 /\ parseCursor(call.cursor).ok) =>
        /\ response.status = "ok"
        /\ response.body = <<>>
        /\ response.pagination.total = 0
        /\ response.pagination.returned = 0
        /\ response.pagination.nextCursor = Null

\* C6 witness: a non-zero cursor against an empty set was answered with an
\* empty page.
C6_Witness ==
    /\ Completed
    /\ Len(paginated) = 0
    /\ call.cursor = Str(<<"5">>)
    /\ response.status = "ok"
    /\ response.pagination.total = 0

\* C7 (as claimed): every successful page is items[offset .. min(offset+20, n)),
\* with returned = min(20, n - offset) <= 20, pageSize = 20 and total = n.
C7_PageExtraction ==
    (Completed /\ response.status = "ok") =>
        LET n == Len(paginated)
            m == response.pagination
        IN  /\ response.body = SubSeq(paginated, m.offset + 1, Min(m.offset + 20, n))
            /\ m.returned = Min(20, n - m.offset)
            /\ m.returned <= 20
            /\ m.pageSize = 20
            /\ m.total = n

\* C8: in every successful response nextCursor is the decimal string of
\* offset + returned when offset + returned < total and null otherwise,
\* and the "Next cursor:" trailer is there exactly when nextCursor is
\* non-null (and shows it).
C8_NextCursor ==
    (Completed /\ response.status = "ok") =>
        LET m == response.pagination
        IN  /\ IF m.offset + m.returned < m.total
               THEN m.nextCursor.present
                    /\ IsDecimalOf(m.nextCursor.s, m.offset + m.returned)
               ELSE m.nextCursor = Null
            /\ response.cursorLine.present <=> m.nextCursor.present
            /\ response.cursorLine.present => response.cursorLine = m.nextCursor

\* C8 witness: a page that ends before the end of the set carries a cursor.
C8_Witness ==
    /\ Completed /\ response.status = "ok"
    /\ response.pagination.offset = 20
    /\ response.pagination.nextCursor = Str(<<"4", "0">>)
    /\ response.cursorLine = Str(<<"4", "0">>)

\* The collections whose fetch fails on backend b.
FailingLists(b) == {tl \in TaskListIds : InRegistry(b, tl) /\ b.failAt[tl] # 0}

\* The complete item sequences of the registry's keyed collections outside
\* F, concatenated in registry order.
RECURSIVE ConcatInRegistryOrder(_, _)
ConcatInRegistryOrder(registry, F) ==
    IF Len(registry) = 0 THEN <<>>
    ELSE (IF Head(registry) # "" /\ Head(registry) \notin F
          THEN TasksOf(Head(registry)) ELSE <<>>)
         \o ConcatInRegistryOrder(Tail(registry), F)

\* A request without taskListId whose registry drain succeeded has completed.
FanOutCompleted == Completed /\ call.taskListId = "" /\ backend.regFailAt = 0

\* C9: in a list / search without taskListId, whichever set F of
\* collections fails, the merged result is the concatenation in registry
\* order of the complete sequences of the collections outside F, and the
\* request does not fail because of F (it answers, or refuses the cursor).
C9_PartialFailureTolerance ==
    FanOutCompleted =>
        /\ allTasks = ConcatInRegistryOrder(backend.registry, FailingLists(backend))
        /\ response.status = "error" => response.error = InvalidCursorMsg
        /\ ~call.cursor.present => response.status = "ok"

\* C9 witness: with A, B, D, C listed and only B failing, the request
\* succeeded with A's items followed by C's.
C9_Witness ==
    /\ FanOutCompleted
    /\ backend.registry = MasterRegistry
    /\ FailingLists(backend) = {"B"}
    /\ response.status = "ok"
    /\ allTasks = TasksOf("A") \o TasksOf("C")

\* C10: in a list / search without taskListId, when the registry drain
\* succeeds and the fetch of every collection fails, the request succeeds
\* with total = 0, an empty page and nextCursor = null.
C10_TotalDegradation ==
    (/\ FanOutCompleted
     /\ \A i \in DOMAIN backend.registry :
           backend.registry[i] # "" => backend.registry[i] \in FailingLists(backend)) =>
        /\ response.status = "ok"
        /\ allTasks = <<>>
        /\ response.body = <<>>
        /\ response.pagination.total = 0
        /\ response.pagination.nextCursor = Null

\* C10 witness: all four collections of the registry failed and the
\* request succeeded.
C10_Witness ==
    /\ FanOutCompleted
    /\ backend.registry = MasterRegistry
    /\ FailingLists(backend) = TaskListIds
    /\ response.status = "ok"

\* Some native page request for collection tl fails on backend b.
DrainFails(b, tl) == ~InRegistry(b, tl) \/ b.failAt[tl] # 0

\* C11: in a list / search with a taskListId the registry is never queried,
\* and when a native page request for that collection fails, at the first
\* or at a later native page, the request fails with the backend's error
\* and returns no page.
C11_SingleCollectionFailure ==
    call.taskListId # "" =>
        /\ regReqs = <<>>
        /\ taskLists = <<>>
        /\ (Completed /\ DrainFails(backend, call.taskListId)) =>
              /\ response = ErrorResponse(BackendErrorMsg)
              /\ allTasks = <<>>
              /\ paginated = <<>>

\* C11 witness: a list / search of collection A failed after the first
\* native page of A had been fetched.
C11_Witness ==
    /\ Completed
    /\ call.taskListId = "A"
    /\ backend.failAt["A"] = 2
    /\ Len(fetch[1].tasks) > 0
    /\ response = ErrorResponse(BackendErrorMsg)

\* C12: in a list / search without taskListId, when a native page request
\* of the registry drain fails, at the first or at a later native page, no
\* tasks.list request is sent at any time, and the request fails with the
\* backend's error and returns no page.
C12_RegistryFailureFatal ==
    (call.taskListId = "" /\ backend.regFailAt # 0) =>
        /\ fetch = <<>>
        /\ pc \in {"idle", "registry"}
        /\ Completed =>
              /\ response = ErrorResponse(BackendErrorMsg)
              /\ allTasks = <<>>
              /\ paginated = <<>>

\* C12 witness: the request failed at the second native registry page,
\* with the records of the first page at hand and no fetch started.
C12_Witness ==
    /\ Completed
    /\ call.taskListId = ""
    /\ backend.regFailAt = 2
    /\ Len(Keyed(taskLists)) > 0
    /\ Len(regReqs) = 2
    /\ fetch = <<>>
    /\ response = ErrorResponse(BackendErrorMsg)

\* The sequences of a sequence of sequences, concatenated in order.
RECURSIVE Flatten(_)
Flatten(ss) == IF Len(ss) = 0 THEN <<>> ELSE Head(ss) \o Flatten(Tail(ss))

\* What the backend answers to the k-th tasklists.list request sent.
RegistryResponse(k) ==
    TasklistsList(backend, regReqs[k].maxResults, regReqs[k].pageToken)

\* What the backend answers to the k-th tasks.list request of fetcher f.
FetchResponse(f, k) ==
    TasksList(backend, f.reqs[k].tasklist, f.reqs[k].params, f.reqs[k].pageToken)

\* The registry drain has returned.
RegistryDrained == call.taskListId = "" /\ pc \in {"fanout", "fetched"}

\* C13: a drain sends its first request without page token and every later
\* request with the token the previous response returned; it returns at
\* the first response without token, with the items of all native pages
\* in request order, which is the whole sequence the backend holds, none
\* dropped or repeated, however many native pages there are. This holds
\* for the registry drain and for every collection drain.
C13_ExhaustiveDrain ==
    /\ Len(regReqs) > 0 => regReqs[1].pageToken = NoToken
    /\ \A k \in 2..Len(regReqs) :
          /\ RegistryResponse(k - 1).nextPageToken # NoToken
          /\ regReqs[k].pageToken = RegistryResponse(k - 1).nextPageToken
    /\ RegistryDrained =>
          /\ RegistryResponse(Len(regReqs)).nextPageToken = NoToken
          /\ taskLists = Flatten([k \in 1..Len(regReqs) |-> RegistryResponse(k).items])
          /\ taskLists = backend.registry
          /\ Len(regReqs) = NativePages(Len(backend.registry), backend.regCap)
    /\ \A i \in DOMAIN fetch :
          LET f == fetch[i]
              n == Len(f.reqs)
          IN  /\ n > 0
              /\ f.reqs[1].pageToken = NoToken
              /\ \A k \in 1..n : f.reqs[k].tasklist = f.id
              /\ \A k \in 2..n :
                    /\ FetchResponse(f, k - 1).nextPageToken # NoToken
                    /\ f.reqs[k].pageToken = FetchResponse(f, k - 1).nextPageToken
              /\ f.status = "fulfilled" =>
                    /\ FetchResponse(f, n).nextPageToken = NoToken
                    /\ f.tasks = Flatten([k \in 1..n |-> FetchResponse(f, k).items])
                    /\ f.tasks = TasksOf(f.id)
                    /\ n = NativePages(TaskCount(f.id), backend.cap)

\* C13 witness: a request drained a registry and a collection of more than
\* two native pages each and answered.
C13_Witness ==
    /\ Completed
    /\ response.status = "ok"
    /\ Len(regReqs) > 2
    /\ taskLists = MasterRegistry
    /\ \E i \in DOMAIN fetch :
          /\ Len(fetch[i].reqs) > 2
          /\ fetch[i].status = "fulfilled"
          /\ fetch[i].tasks = TasksOf(fetch[i].id)

Range(s) == {s[i] : i \in DOMAIN s}

\* C14: in a list / search without taskListId, a collection whose drain
\* failed, at its first or at a later native page, has none of its items
\* in the merged set, in the paginated set or in the returned page.
C14_NoPartialCollection ==
    (call.taskListId = "" /\ (pc = "fetched" \/ Completed)) =>
        \A i \in DOMAIN fetch :
            fetch[i].status = "rejected" =>
                LET items == Range(TasksOf(fetch[i].id))
                IN  /\ items \cap Range(allTasks) = {}
                    /\ items \cap Range(paginated) = {}
                    /\ response.status = "ok" => items \cap Range(response.body) = {}

\* C14 witness: a request answered with items although the drain of one
\* collection had fetched its first native page and failed at the second.
C14_Witness ==
    /\ Completed
    /\ call.taskListId = ""
    /\ response.status = "ok"
    /\ Len(response.body) > 0
    /\ \E i \in DOMAIN fetch :
          /\ fetch[i].status = "rejected"
          /\ Len(fetch[i].reqs) = 2
          /\ Len(fetch[i].tasks) > 0

\* Which tasks a query keeps, read off the backend's titles and notes by
\* hand. A task's title and notes go by its id modulo 5: 1 has title
\* "Buy Milk" and no notes, 2 has no title and notes "milk run", 3 has
\* title "Eggs" and notes "MILK", 4 has neither, 0 has title "Eggs" and
\* empty notes.
KeptKinds(query) ==
    CASE query = <<"m", "i", "L", "K">> -> {1, 2, 3}
      [] query = <<"t", "e", "a">> -> {}
      [] query = <<"E", "G", "G">> -> {0, 3}
      [] query = <<>> -> {0, 1, 2, 3}

\* The items of `tasks` the query keeps, in the order of `tasks`.
KeptOf(tasks, query) == SelectSeq(tasks, LAMBDA t : (t % 5) \in KeptKinds(query))

\* C15: a search applies its predicate to the whole merged set and then
\* paginates: total is the number of matching items of the merged set, the
\* cursor is an offset into the sequence of matching items (refused when
\* it reaches its length), and the page is the contiguous slice of that
\* sequence at the offset.
C15_SearchNarrowsBeforePaging ==
    (Completed /\ call.op = "search") =>
        LET filtered == KeptOf(allTasks, call.query)
            n == Len(filtered)
            c == parseCursor(call.cursor)
        IN  /\ (c.ok /\ n > 0 /\ c.offset >= n) => response.status = "error"
            /\ (c.ok /\ c.offset < n) => response.status = "ok"
            /\ response.status = "ok" =>
                  LET m == response.pagination
                  IN  /\ m.total = n
                      /\ m.total = Cardinality({i \in DOMAIN allTasks :
                                         (allTasks[i] % 5) \in KeptKinds(call.query)})
                      /\ response.header.total = n
                      /\ m.offset = c.offset
                      /\ response.body = SubSeq(filtered, m.offset + 1,
                                                Min(m.offset + 20, n))
                      /\ m.returned = Len(response.body)

\* C15 witness: of 25 merged items 10 match; the search without cursor
\* answered total = 10, returned = 10, nextCursor = null.
C15_Witness ==
    /\ Completed /\ call.op = "search"
    /\ Len(allTasks) = 25
    /\ call.query = <<"E", "G", "G">>
    /\ ~call.cursor.present
    /\ response.status = "ok"
    /\ response.pagination.total = 10
    /\ response.pagination.returned = 10
    /\ response.pagination.nextCursor = Null

\* Where item x stands in sequence s (the items of a merged set are distinct).
PositionIn(s, x) == CHOOSE k \in DOMAIN s : s[k] = x

\* C16: a search keeps an item exactly when its title is present and
\* contains the query, or its notes are present and contain the query,
\* letter case ignored; an item without title and without notes is never
\* kept; the kept items stand in merged order.
C16_SearchPredicate ==
    (Completed /\ call.op = "search") =>
        /\ paginated = KeptOf(allTasks, call.query)
        /\ \A i \in DOMAIN paginated :
              TaskTitle(paginated[i]).present \/ TaskNotes(paginated[i]).present
        /\ \A i \in 1..(Len(paginated) - 1) :
              PositionIn(allTasks, paginated[i]) < PositionIn(allTasks, paginated[i + 1])

\* C16 witness: a search for "miLK" over ten items kept the six whose
\* title or notes contain it in some letter case, and neither the item
\* without title and notes nor the one with other title and empty notes.
C16_Witness ==
    /\ Completed /\ call.op = "search"
    /\ call.query = <<"m", "i", "L", "K">>
    /\ allTasks = SubSeq(FullMerge, 1, 10)
    /\ paginated = <<101, 102, 103, 106, 107, 108>>

\* C17: on an unchanged backend, a list / search sent again with the same
\* filters, query and cursor gets the answer the first one got: the same
\* page, pagination metadata and nextCursor, or the same error.
C17_Idempotence ==
    (Completed /\ kept.keeping /\ kept.runs > 1) =>
        /\ input = kept.input
        /\ response = kept.response

\* C17 witness: a request over several collections, one of them failing,
\* was answered twice with the same full page and next cursor.
C17_Witness ==
    /\ Completed /\ kept.keeping /\ kept.runs = 2
    /\ call.taskListId = ""
    /\ \E i \in DOMAIN fetch : fetch[i].status = "rejected"
    /\ response.status = "ok"
    /\ Len(response.body) = 20
    /\ response.pagination.nextCursor.present
    /\ response = kept.response

\* C18: create, update, delete and clear called without taskListId send
\* their request to the collection "@default" (and with a taskListId to
\* that collection); a list / search without taskListId never sends a
\* tasks.list request for "@default": it drains the registry and starts
\* one drain for each collection of the registry that has an id.
C18_DefaultCollection ==
    /\ sent.method # "none" =>
          /\ sent.method \in {"tasks.insert", "tasks.patch", "tasks.delete", "tasks.clear"}
          /\ sent.args.taskListId = "" => sent.tasklist = "@default"
          /\ sent.args.taskListId # "" => sent.tasklist = sent.args.taskListId
          /\ sent.params.tasklist = sent.tasklist
    /\ (call.taskListId = "" /\ pc # "idle") =>
          /\ pc # "single"
          /\ Len(regReqs) > 0
    /\ call.taskListId = "" =>
          /\ \A i \in DOMAIN fetch :
                /\ fetch[i].id # "@default"
                /\ \A k \in DOMAIN fetch[i].reqs : fetch[i].reqs[k].tasklist # "@default"
          /\ pc \in {"fanout", "fetched"} =>
                [i \in DOMAIN fetch |-> fetch[i].id]
                    = SelectSeq(backend.registry, LAMBDA id : id # "")

\* C18 witness: a clear without taskListId was answered for "@default",
\* and a list without taskListId has started a drain for each of the four
\* collections of the registry.
C18_Witness ==
    /\ sent.method = "tasks.clear"
    /\ sent.args.taskListId = ""
    /\ sent.tasklist = "@default"
    /\ sent.status = "done"
    /\ call.taskListId = ""
    /\ pc = "fanout"
    /\ Len(fetch) = 4

\* Parameter p of a tasks.list request carries what the caller gave for
\* flag f: it is there exactly when the caller set the flag, with the
\* caller's value, false included.
SentAsGiven(p, f) == (p.set <=> f.set) /\ (f.set => p.v = f.v)

\* C19: every tasks.list request of a list, for every collection and
\* every native page, carries each of showCompleted, showHidden,
\* showDeleted, showAssigned exactly when the caller set it and with the
\* caller's value, and all requests of one list carry the same parameters.
C19_FilterPassThrough ==
    \A i \in DOMAIN fetch :
        \A k \in DOMAIN fetch[i].reqs :
            LET p == fetch[i].reqs[k].params
            IN  /\ SentAsGiven(p.showCompleted, input.filters.showCompleted)
                /\ SentAsGiven(p.showHidden, input.filters.showHidden)
                /\ SentAsGiven(p.showDeleted, input.filters.showDeleted)
                /\ SentAsGiven(p.showAssigned, input.filters.showAssigned)
                /\ p = fetch[1].reqs[1].params

\* C19 witness: a list over four collections with showCompleted = false,
\* showDeleted = true and the other flags left out has completed, its
\* second-page request for a collection carrying exactly those two.
C19_Witness ==
    /\ Completed
    /\ call.taskListId = ""
    /\ input.filters.showCompleted = Flag(FALSE)
    /\ input.filters.showHidden = Unset
    /\ input.filters.showDeleted = Flag(TRUE)
    /\ input.filters.showAssigned = Unset
    /\ Len(fetch) = 4
    /\ \E i \in DOMAIN fetch :
          /\ Len(fetch[i].reqs) = 2
          /\ fetch[i].reqs[2].params.showCompleted = Flag(FALSE)
          /\ fetch[i].reqs[2].params.showHidden = Unset
          /\ fetch[i].reqs[2].params.showDeleted = Flag(TRUE)

\* The collections of the registry of backend b that hold task t.
Holders(b, t) ==
    {tl \in TaskListIds : InRegistry(b, tl) /\ t \in Range(TasksOf(tl))}

\* C20 (as claimed): against a backend that answers every request,
\* read(taskId) returns the task whenever a collection of the registry
\* holds it, however many records the registry has, and throws
\* "Task not found" only when no collection of the registry holds it.
C20_ResourceRead ==
    (read.pc = "done" /\ backend.regFailAt = 0) =>
        /\ Holders(backend, read.taskId) # {} =>
              read.outcome = [status |-> "ok", task |-> read.taskId]
        /\ read.outcome = ErrorResponse(TaskNotFoundMsg) =>
              Holders(backend, read.taskId) = {}

\* C21 (as claimed): against a backend that answers, list_task_lists
\* returns one line for every record of the registry, however many native
\* pages the registry is served in, and "Found N task lists" carries the
\* number of records of the registry.
C21_ListTaskListsComplete ==
    (listing.pc = "done" /\ backend.regFailAt = 0) =>
        /\ listing.outcome.status = "ok"
        /\ listing.outcome.lines = backend.registry
        /\ listing.outcome.found = Len(backend.registry)

\* The collections of the registry of backend b whose fetch succeeds, in
\* registry-listing order.
SucceedingLists(b) ==
    SelectSeq(b.registry, LAMBDA id : id # "" /\ id \notin FailingLists(b))

\* C22: in a fan-out over several collections, in whatever order the
\* concurrent fetches settled, the merged sequence is the succeeding
\* collections' item sequences one after the other in registry-listing
\* order, each whole, contiguous and in backend order.
C22_MergeOrderIndependent ==
    (call.taskListId = "" /\ (pc = "fetched" \/ Completed)) =>
        LET lists == SucceedingLists(backend)
        IN  /\ Len(settleLog.ids) = Len(fetch)
            /\ Range(settleLog.ids) = {fetch[i].id : i \in DOMAIN fetch}
            /\ allTasks = Flatten([k \in 1..Len(lists) |-> TasksOf(lists[k])])

\* C22 witness: the fetch of the last collection of the registry settled
\* first and that of the first collection settled last, both succeeded,
\* and the merged sequence starts with the first collection's items and
\* ends with the last collection's.
C22_Witness ==
    /\ Completed
    /\ call.taskListId = ""
    /\ Len(settleLog.ids) = 4
    /\ settleLog.ids[1] = "C"
    /\ settleLog.ids[4] = "A"
    /\ FailingLists(backend) = {}
    /\ SubSeq(allTasks, 1, BigList) = TasksOf("A")
    /\ SubSeq(allTasks, Len(allTasks) - SmallList + 1, Len(allTasks)) = TasksOf("C")

\* C23: in a list / search without taskListId, no tasks.list request
\* exists while the registry is being drained; once it is drained every
\* keyed collection has a fetch whose first request is out, whatever the
\* other fetches have received; and fetchTasks returns only when every
\* fetch has settled, so that every collection that does not fail is
\* drained to its last native page even when another one failed first.
C23_FanOutOrdering ==
    call.taskListId = "" =>
        /\ pc = "registry" => fetch = <<>>
        /\ pc \in {"fanout", "fetched"} =>
              /\ [i \in DOMAIN fetch |-> fetch[i].id] = Keyed(backend.registry)
              /\ \A i \in DOMAIN fetch :
                    /\ Len(fetch[i].reqs) >= 1
                    /\ fetch[i].reqs[1].pageToken = NoToken
        /\ (pc = "fetched" \/ Completed) =>
              \A i \in DOMAIN fetch :
                  /\ Settled(fetch[i])
                  /\ fetch[i].id \notin FailingLists(backend) =>
                        /\ fetch[i].status = "fulfilled"
                        /\ Len(fetch[i].reqs) =
                              NativePages(TaskCount(fetch[i].id), backend.cap)

\* C23 witness: the fetch that settled first was a rejection, and the
\* request still completed with a collection of two native pages drained.
C23_Witness ==
    /\ Completed
    /\ call.taskListId = ""
    /\ response.status = "ok"
    /\ Len(settleLog.ids) = 4
    /\ settleLog.ids[1] \in FailingLists(backend)
    /\ \E i \in DOMAIN fetch :
          /\ fetch[i].status = "fulfilled"
          /\ Len(fetch[i].reqs) = 2

\* C24: within one list / search no native page is requested twice, of
\* the registry or of a collection; no collection has two fetches; and a
\* failed page request is the last request sent for the registry or for
\* that collection.
C24_NoRetries ==
    /\ \A k, l \in DOMAIN regReqs :
          k # l => regReqs[k].pageToken # regReqs[l].pageToken
    /\ \A k \in 1..(Len(regReqs) - 1) : RegistryResponse(k).ok
    /\ (Completed /\ call.taskListId = "" /\ backend.regFailAt # 0) =>
          /\ Len(regReqs) = backend.regFailAt
          /\ ~RegistryResponse(Len(regReqs)).ok
    /\ \A i, j \in DOMAIN fetch : i # j => fetch[i].id # fetch[j].id
    /\ \A i \in DOMAIN fetch :
          LET f == fetch[i]
              n == Len(f.reqs)
          IN  /\ \A k, l \in 1..n : k # l => f.reqs[k].pageToken # f.reqs[l].pageToken
              /\ \A k \in 1..(n - 1) : FetchResponse(f, k).ok
              /\ f.status = "rejected" => ~FetchResponse(f, n).ok

\* C24 witness: a request completed after the second native page of a
\* collection had failed; two requests had been sent for that collection.
C24_Witness ==
    /\ Completed
    /\ call.taskListId = ""
    /\ \E i \in DOMAIN fetch :
          /\ fetch[i].status = "rejected"
          /\ backend.failAt[fetch[i].id] = 2
          /\ Len(fetch[i].reqs) = 2
          /\ FetchResponse(fetch[i], 1).ok
          /\ ~FetchResponse(fetch[i], 2).ok
\* C25: per-collection failures are invisible.  The response to a request
\* without taskListId while a set of collections fails is the response the
\* same request gets once exactly those collections answer with no tasks:
\* same status, same page of items, same pagination, same message.
C25_FailuresInvisible ==
    (Completed /\ kept.keeping /\ kept.runs > 1 /\ backend.emptied # {}) =>
        /\ FailingLists(backend) = {}
        /\ response.status = kept.response.status
        /\ response = kept.response

C25_Witness ==
    /\ Completed /\ kept.keeping /\ kept.runs = 2
    /\ backend.emptied # {}
    /\ backend.emptied # {tl \in TaskListIds : InRegistry(backend, tl)}
    /\ \A i \in DOMAIN fetch : fetch[i].status = "fulfilled"
    /\ \E i \in DOMAIN fetch : fetch[i].id \in backend.emptied /\ fetch[i].tasks = <<>>
    /\ kept.response.status = "ok"
    /\ Len(kept.response.body) > 0
    /\ response = kept.response

\* A request has returned on the suspended side.
OtherCompleted == other.pc = "idle" /\ other.response.status # "none"

\* C26: request isolation.  Of two list / search requests running
\* concurrently on one TaskService over an unchanged backend, interleaved
\* at any backend call, each returns the response it returns when it runs
\* alone: whichever of the two is the request the caller first sent alone,
\* its response is the one kept from then, whatever the other request is.
C26_RequestIsolation ==
    /\ (Completed /\ kept.runs >= 1 /\ input = kept.input) =>
           response = kept.response
    /\ (OtherCompleted /\ kept.runs >= 1 /\ other.input = kept.input) =>
           other.response = kept.response

C26_Witness ==
    /\ Completed /\ kept.runs = 2
    /\ input = kept.input
    /\ call.taskListId = ""
    /\ response.status = "ok"
    /\ Len(response.body) > 0
    /\ response = kept.response
    /\ other.pc = "fanout"
    /\ other.input # input
    /\ \E i \in DOMAIN other.fetch : Len(other.fetch[i].reqs) > 1
    /\ \E i \in DOMAIN other.fetch : other.fetch[i].status = "running"

\* The merged set of backend b as it is now: the tasks held by the keyed
\* collections of the registry, in registry order.
RECURSIVE MergedSet(_, _)
MergedSet(b, registry) ==
    IF Len(registry) = 0 THEN <<>>
    ELSE (IF Head(registry) # "" THEN HeldTasks(b, Head(registry)) ELSE <<>>)
         \o MergedSet(b, Tail(registry))

\* C27: no snapshot isolation.  A follow-up request with a cursor c that an
\* earlier response gave as nextCursor is answered from the merged set as
\* it is when the follow-up runs, n items: the invalid-cursor error exactly
\* when 0 < n <= c, otherwise the items c .. c+20 of that set (none when
\* n = 0), whatever the earlier pages held.
C27_NoSnapshotIsolation ==
    [][(pc = "fetched" /\ pc' = "idle" /\ call.cursor.present) =>
          LET c == ParseInt(call.cursor.s).v
              items == MergedSet(backend, backend.registry)
              n == Len(items)
          IN  /\ backend' = backend
              /\ IF 0 < n /\ n <= c
                 THEN response' = ErrorResponse(InvalidCursorMsg)
                 ELSE /\ response'.status = "ok"
                      /\ response'.body = SubSeq(items, c + 1, Min(c + 20, n))
                      /\ n = 0 => response'.body = <<>>]_vars

\* A follow-up that skipped tasks: the first page was collection A, then A
\* was emptied, and the page at cursor 20 is collection C; no page held B.
C27_Witness ==
    /\ Completed /\ kept.runs = 2
    /\ input.cursor = Str(<<"2", "0">>)
    /\ kept.response.status = "ok"
    /\ kept.response.body = TasksOf("A")
    /\ kept.response.pagination.nextCursor = input.cursor
    /\ backend.emptied = {"A"}
    /\ response.status = "ok"
    /\ response.body = TasksOf("C")

\* A request has been sent: its first backend request is out.
Asked == regReqs # <<>> \/ fetch # <<>>

\* The request last sent asks a collection whose paging never ends.
AsksEndless ==
    IF call.taskListId = ""
    THEN backend.regFailAt = 0 /\ \E tl \in backend.endless : InRegistry(backend, tl)
    ELSE AddressedList(backend, call.taskListId) \in backend.endless

\* C28: termination.  Over a backend all of whose collections have
\* finitely many native pages and whose calls all respond, a request that
\* was sent is eventually answered; whenever a drain is complete it has
\* sent as many requests as the registry or the collection has native
\* pages; and a request that asks a collection whose every response
\* carries a next page token is never answered, its drain never settles.
C28_Termination ==
    /\ (pc # "idle" /\ backend.endless = {}) ~> Completed
    /\ [](RegistryDrained =>
             Len(regReqs) = NativePages(Len(backend.registry), backend.regCap))
    /\ [](\A i \in DOMAIN fetch :
             fetch[i].status = "fulfilled" =>
                 Len(fetch[i].reqs) = NativePages(TaskCount(fetch[i].id), backend.cap))
    /\ [](\A i \in DOMAIN fetch :
             fetch[i].id \in backend.endless => fetch[i].status = "running")
    /\ []((Asked /\ AsksEndless) => pc # "idle")

C28_Witness ==
    /\ Completed
    /\ backend.endless = {}
    /\ response.status = "ok"
    /\ Len(regReqs) = 2
    /\ Len(fetch) = 4
    /\ \A i \in DOMAIN fetch : fetch[i].status = "fulfilled"
    /\ \E i \in DOMAIN fetch : Len(fetch[i].reqs) = 5

\* C29: a page is not empty when there is something to page.  A response
\* that reports total > 0 carries at least one task and no placeholder
\* line; the placeholder "No tasks on this page." comes only with
\* total = 0 and an empty page.
C29_NonEmptyPage ==
    (Completed /\ response.status = "ok") =>
        /\ response.pagination.total > 0 =>
              /\ response.pagination.returned >= 1
              /\ Len(response.body) >= 1
              /\ ~response.placeholder
        /\ response.placeholder =>
              /\ response.pagination.total = 0
              /\ response.body = <<>>

\* C29 witness: the last valid offset of the merged set, a page of one task.
C29_Witness ==
    /\ Completed
    /\ call.op = "list"
    /\ response.status = "ok"
    /\ response.pagination.total = Len(FullMerge)
    /\ response.pagination.offset = Len(FullMerge) - 1
    /\ response.pagination.returned = 1
    /\ response.body = <<FullMerge[Len(FullMerge)]>>
    /\ ~response.placeholder
    /\ ~Truthy(response.pagination.nextCursor)

\* C30: the pagination record of every successful response is consistent:
\* 0 <= offset, 0 <= returned <= 20 and offset + returned <= total, also
\* when total = 0.
C30_MetadataConsistent ==
    (Completed /\ response.status = "ok") =>
        LET m == response.pagination
        IN  /\ 0 <= m.offset
            /\ 0 <= m.returned
            /\ m.returned <= TASK_PAGE_SIZE
            /\ m.offset + m.returned <= m.total

====
